---------------------------- MODULE Spec2Model ----------------------------
(***************************************************************************)
(* Model of the ResumeBuilder core: the profile schema validators          *)
(* (src/models.py, src/app.py), the MOS catalog (src/services/             *)
(* mapping_service.py) and the resume generation service                   *)
(* (src/services/resume_service.py, src/services/resume_generator.py).     *)
(*                                                                         *)
(* Python strings are modelled as sequences of one-character strings, so   *)
(* that digit extraction, pattern matching, case folding and substring     *)
(* search are computed and not assumed.                                    *)
(***************************************************************************)
EXTENDS Integers, Sequences, FiniteSets, TLC

VARIABLES
    phoneIn,      \* the raw phone string handed to Contact(phone=...)
    phoneOut,     \* outcome of the Contact phone validation
    phoneAgain,   \* outcome of validating the stored phone once more
    phoneForm,    \* outcome of FieldValidator.validate_phone on the raw phone
    whEntry,      \* the WorkHistory object, or NoEntry
    whOp,         \* the last WorkHistory operation, its arguments and errors
    whRange,      \* the date range last rendered for the work entry
    gpaIn,        \* the raw GPA value of an education form entry
    gpaOut,       \* outcome of convert_gpa followed by Education(gpa=...)
    dataFile,     \* the MOS reference dataset file: missing, readable, malformed
    dataRows,     \* the rows of the MOS reference dataset file
    loadOutcome,  \* how the construction of the MOSMappingService ended
    loaded,       \* whether the MOSMappingService has been constructed
    mappings,     \* MOSMappingService._mappings
    searchOp,     \* the search_mos call the caller made last, and its result
    lookupOp,     \* the get_mos call the caller made last, and its result
    genPc,        \* where the generate_resume call stands
    genProfile,   \* the profile being generated
    genPath,      \* the output file name the call resolved
    genDoc,       \* the document built by the generator
    genResult,    \* what generate_resume handed to its caller
    outFile,      \* the file at the output path: absent, partial, complete
    nameClock,    \* datetime.now(), in whole seconds
    nameCalls,    \* the generate_resume calls made without a file name
    urlIn,        \* the linkedin and portfolio values handed to Contact(...)
    urlOut,       \* outcome of the validation of the two URL fields
    formIn,       \* the form data handed to a validate_* function of app.py
    formOut,      \* what the validate_* call gave its caller
    roleIn,       \* a work_history role of the session state, and today
    roleOut,      \* the work entry built from it for the profile
    rpProfile,    \* the ResumeProfile object, its target_roles
    rpOp,         \* the last ResumeProfile operation and its errors
    skIn,         \* the skill lists of the profile given to the skills section
    skOut,        \* the skills line that was added, if any
    hdrIn,        \* the contact of the profile given to the header
    hdrOut,       \* the name line and the contact line of the header
    volIn,        \* the volunteer_experience list of the session state
    volPc,        \* the step of building and rendering the volunteer list
    volInfo,      \* the volunteer list of the AdditionalInfo that was built
    volDoc,        \* the entries rendered under VOLUNTEER EXPERIENCE
    rtSession,    \* the session state of the profile in progress
    rtPc,         \* the step of the export and import of the profile JSON
    rtJson,       \* the profile JSON that was downloaded
    rtLoaded      \* the session data the import made of the JSON

phoneVars == <<phoneIn, phoneOut, phoneAgain, phoneForm>>
workVars == <<whEntry, whOp, whRange>>
gpaVars == <<gpaIn, gpaOut>>
catalogVars ==
    <<dataFile, dataRows, loadOutcome, loaded, mappings, searchOp, lookupOp>>
genVars == <<genPc, genProfile, genPath, genDoc, genResult, outFile>>
nameVars == <<nameClock, nameCalls>>
urlVars == <<urlIn, urlOut>>
formVars == <<formIn, formOut>>
roleVars == <<roleIn, roleOut>>
profileVars == <<rpProfile, rpOp>>
skillVars == <<skIn, skOut>>
headerVars == <<hdrIn, hdrOut>>
volunteerVars == <<volIn, volPc, volInfo, volDoc>>
tripVars == <<rtSession, rtPc, rtJson, rtLoaded>>

vars ==
    <<phoneIn, phoneOut, phoneAgain, phoneForm, whEntry, whOp, whRange, gpaIn, gpaOut, dataFile, dataRows,
      loadOutcome, loaded, mappings, searchOp, lookupOp, genPc, genProfile, genPath, genDoc, genResult,
      outFile,
      nameClock, nameCalls,
      urlIn, urlOut,
      formIn, formOut,
      roleIn, roleOut,
      rpProfile, rpOp,
      skIn, skOut,
      hdrIn, hdrOut,
      volIn, volPc, volInfo, volDoc,
      rtSession, rtPc, rtJson, rtLoaded>>

(***************************************************************************)
(* Characters and strings                                                  *)
(***************************************************************************)
DigitChars == {"0", "1", "2", "3", "4", "5", "6", "7", "8", "9"}

\* str.strip(): drop leading and trailing whitespace
RECURSIVE LStrip(_)
LStrip(s) == IF s # <<>> /\ Head(s) = " " THEN LStrip(Tail(s)) ELSE s

RECURSIVE RStrip(_)
RStrip(s) ==
    IF s # <<>> /\ s[Len(s)] = " " THEN RStrip(SubSeq(s, 1, Len(s) - 1)) ELSE s

Strip(s) == RStrip(LStrip(s))

IsDigit(c) == c \in DigitChars

\* re.sub(r'\D', '', s)
DigitsOf(s) == SelectSeq(s, IsDigit)

(***************************************************************************)
(* Contact.phone  (src/models.py)                                          *)
(***************************************************************************)
\* the character class [\d\s\(\)\-\.] of the Field pattern
PhoneClass == DigitChars \cup {" ", "(", ")", "-", "."}

PhoneMinClassLen == 10
PhoneMaxClassLen == 14

\* Field(..., pattern=r'^[\+]?[\d\s\(\)\-\.]{10,14}$'): checked by pydantic
\* before the field validator runs
PhonePattern(v) ==
    LET body == IF v # <<>> /\ Head(v) = "+" THEN Tail(v) ELSE v
    IN  /\ Len(body) >= PhoneMinClassLen
        /\ Len(body) <= PhoneMaxClassLen
        /\ \A i \in 1..Len(body) : body[i] \in PhoneClass

PhoneOk(val) == [ok |-> TRUE, value |-> val, err |-> "none", count |-> -1]
PhoneErr(e, n) == [ok |-> FALSE, value |-> <<>>, err |-> e, count |-> n]

\* the format with the country code in front: +1 (XXX) XXX-XXXX
FormatTen_countrycode(d) ==
    <<"+", "1", " ", "(">> \o SubSeq(d, 1, 3) \o <<")", " ">>
            \o SubSeq(d, 4, 6) \o <<"-">> \o SubSeq(d, 7, Len(d))

\* f"({digits[:3]}) {digits[3:6]}-{digits[6:]}"
FormatTen(d) ==
    <<"(">> \o SubSeq(d, 1, 3) \o <<")", " ">> \o SubSeq(d, 4, 6)
            \o <<"-">> \o SubSeq(d, 7, Len(d))

\* Contact.format_phone
format_phone(v) ==
    LET digits == DigitsOf(Strip(v))
    IN  IF Strip(v) = <<>> THEN PhoneErr("required", -1)
        ELSE IF digits = <<>> THEN PhoneErr("no_digit", -1)
        ELSE IF Len(digits) = 10 THEN PhoneOk(FormatTen(digits))
        ELSE IF Len(digits) = 11 /\ Head(digits) = "1"
             THEN PhoneOk(FormatTen(Tail(digits)))
        ELSE PhoneErr("digit_count", Len(digits))

\* validation of the phone field when a Contact is built: the Field pattern
\* first, then the field validator
ContactPhone(v) ==
    IF PhonePattern(v) THEN format_phone(v) ELSE PhoneErr("pattern", -1)

\* FieldValidator.validate_phone: (True, None) or (False, message); only a
\* count of exactly 10 digits passes
validate_phone(value) ==
    LET digits == DigitsOf(Strip(value))
    IN  IF value = <<>> \/ Strip(value) = <<>> THEN PhoneErr("required", -1)
        ELSE IF digits = <<>> THEN PhoneErr("no_digit", -1)
        ELSE IF Len(digits) = 10 THEN PhoneOk(<<>>)
        ELSE PhoneErr("digit_count", Len(digits))

NoPhoneResult == [ok |-> FALSE, value |-> <<>>, err |-> "unset", count |-> -1]

\* phone inputs: prefix, area code, separator, exchange, separator, line
\* number, suffix, each drawn from a few spellings
PhonePrefixes ==
    { <<>>, <<"+">>, <<"1">>, <<"+", "1">>, <<"1", " ">>, <<"+", "1", " ">>,
      <<"1", "-">>, <<"2">> }
PhoneAreas ==
    { <<"9", "6", "3">>, <<"(", "9", "6", "3", ")">>, <<"1", "6", "3">>,
      <<"9", "6">>, << >> }
PhoneSeps == { <<>>, <<" ">>, <<"-">>, <<".">> }
PhoneExchanges == { <<"2", "5", "8">>, <<"-", "-", "-">> }
PhoneLines ==
    { <<"7", "4", "1", "0">>, <<"7", "4", "1">>, <<"-", "-", "-", "-">>,
      <<" ", " ", " ", " ">> }
PhoneSuffixes == { <<>>, <<" ">>, <<"x">>, <<" ", "x", "9">> }

PhoneInputs ==
    { p \o a \o s1 \o e \o s2 \o l \o x :
        p \in PhonePrefixes, a \in PhoneAreas, s1 \in PhoneSeps,
        e \in PhoneExchanges, s2 \in PhoneSeps, l \in PhoneLines,
        x \in PhoneSuffixes }

PhoneInit ==
    /\ phoneIn \in PhoneInputs
    /\ phoneOut = NoPhoneResult
    /\ phoneAgain = NoPhoneResult
    /\ phoneForm = NoPhoneResult

PhoneIdle ==
    /\ phoneIn = <<>>
    /\ phoneOut = NoPhoneResult
    /\ phoneAgain = NoPhoneResult
    /\ phoneForm = NoPhoneResult

\* Contact(phone=phoneIn)
ValidatePhone ==
    /\ phoneOut = NoPhoneResult
    /\ phoneOut' = ContactPhone(phoneIn)
    /\ UNCHANGED <<phoneIn, phoneAgain, phoneForm>>
    /\ UNCHANGED <<workVars, gpaVars, catalogVars, genVars, nameVars,
                   urlVars, formVars, roleVars, profileVars,
                 skillVars,
                 headerVars,
                 volunteerVars,
                 tripVars>>

\* contact.phone = contact.phone under validate_assignment, or a Contact
\* built again from the stored value: the stored phone is validated again
NormalizeAgain ==
    /\ phoneOut.ok
    /\ phoneAgain = NoPhoneResult
    /\ phoneAgain' = ContactPhone(phoneOut.value)
    /\ UNCHANGED <<phoneIn, phoneOut, phoneForm>>
    /\ UNCHANGED <<workVars, gpaVars, catalogVars, genVars, nameVars,
                   urlVars, formVars, roleVars, profileVars,
                 skillVars,
                 headerVars,
                 volunteerVars,
                 tripVars>>

\* FieldValidator.validate_phone(phoneIn), the check of the form field
FormValidatePhone ==
    /\ phoneForm = NoPhoneResult
    /\ phoneForm' = validate_phone(phoneIn)
    /\ UNCHANGED <<phoneIn, phoneOut, phoneAgain>>
    /\ UNCHANGED <<workVars, gpaVars, catalogVars, genVars, nameVars,
                   urlVars, formVars, roleVars, profileVars,
                 skillVars,
                 headerVars,
                 volunteerVars,
                 tripVars>>

(***************************************************************************)
(* WorkHistory  (src/models.py)                                            *)
(***************************************************************************)
\* dates are day numbers 0..MaxDate; NoDate stands for None / not given
MaxDate == 4
NoDate == -1
Dates == 0..MaxDate

NoEntry == [exists |-> FALSE, start_date |-> NoDate, end_date |-> NoDate,
            current |-> FALSE]
NoOp == [op |-> "none", start |-> NoDate, end |-> NoDate, errors |-> {}]

\* validate_end_date with the comparison turned around
validate_end_date_flipped(v, data) ==
    IF v # NoDate /\ "start_date" \in DOMAIN data
    THEN IF v > data.start_date THEN {"end_before_start"} ELSE {}
    ELSE {}

\* WorkHistory.validate_end_date: data holds the fields validated so far
\* (construction) or the object's other fields (assignment)
validate_end_date(v, data) ==
    IF v # NoDate /\ "start_date" \in DOMAIN data
    THEN IF v < data.start_date THEN {"end_before_start"} ELSE {}
    ELSE {}

\* start_date: date is required, None is a type error
validate_start_date(v) == IF v = NoDate THEN {"start_date_invalid"} ELSE {}

\* WorkHistory(start_date=s, end_date=e, current=c): fields are validated in
\* declaration order and a failed field is left out of data
Construct(s, e, c) ==
    LET startErrs == validate_start_date(s)
        data == IF startErrs = {} THEN [start_date |-> s] ELSE [title |-> "t"]
        errs == startErrs \cup validate_end_date(e, data)
    IN  /\ ~whEntry.exists
        /\ whOp' = [op |-> "construct", start |-> s, end |-> e, errors |-> errs]
        /\ whEntry' = IF errs = {}
                      THEN [exists |-> TRUE, start_date |-> s, end_date |-> e,
                            current |-> c]
                      ELSE NoEntry
        /\ UNCHANGED whRange
        /\ UNCHANGED <<phoneVars, gpaVars, catalogVars, genVars, nameVars,
                       urlVars, formVars, roleVars, profileVars,
                 skillVars,
                 headerVars,
                 volunteerVars,
                 tripVars>>

\* entry.start_date = s under validate_assignment: only the assigned field
\* is validated
AssignStart(s) ==
    LET errs == validate_start_date(s)
    IN  /\ whEntry.exists
        /\ whOp' = [op |-> "assign_start", start |-> s,
                    end |-> whEntry.end_date, errors |-> errs]
        /\ whEntry' = IF errs = {} THEN [whEntry EXCEPT !.start_date = s]
                      ELSE whEntry
        /\ UNCHANGED whRange
        /\ UNCHANGED <<phoneVars, gpaVars, catalogVars, genVars, nameVars,
                       urlVars, formVars, roleVars, profileVars,
                 skillVars,
                 headerVars,
                 volunteerVars,
                 tripVars>>

\* entry.end_date = e under validate_assignment: validate_end_date runs with
\* the object's current start_date in data
AssignEnd(e) ==
    LET errs == validate_end_date(e, [start_date |-> whEntry.start_date])
    IN  /\ whEntry.exists
        /\ whOp' = [op |-> "assign_end", start |-> whEntry.start_date,
                    end |-> e, errors |-> errs]
        /\ whEntry' = IF errs = {} THEN [whEntry EXCEPT !.end_date = e]
                      ELSE whEntry
        /\ UNCHANGED whRange
        /\ UNCHANGED <<phoneVars, gpaVars, catalogVars, genVars, nameVars,
                       urlVars, formVars, roleVars, profileVars,
                 skillVars,
                 headerVars,
                 volunteerVars,
                 tripVars>>

\* day numbers are counted from 30 December 2023, so that the days of the
\* model lie in two months of two years
FirstOfJanuary == 2

\* date.strftime("%B %Y")
MonthYear(d) ==
    IF d < FirstOfJanuary
    THEN <<"D", "e", "c", "e", "m", "b", "e", "r", " ", "2", "0", "2", "3">>
    ELSE <<"J", "a", "n", "u", "a", "r", "y", " ", "2", "0", "2", "4">>

NoRange == [done |-> FALSE, start_date |-> NoDate, end_date |-> NoDate,
            current |-> FALSE, text |-> <<>>]

\* WorkHistory.date_range
date_range(self) ==
    LET start == MonthYear(self.start_date)
        end == IF self.current THEN <<"P", "r", "e", "s", "e", "n", "t">>
               ELSE IF self.end_date # NoDate THEN MonthYear(self.end_date)
               ELSE <<>>
    IN  start \o <<" ", "-", " ">> \o end

\* _add_experience_section reads exp.date_range of a work entry and
\* add_experience_section_table writes it into the date cell
RenderDateRange ==
    /\ whEntry.exists
    /\ whRange' = [done |-> TRUE, start_date |-> whEntry.start_date,
                   end_date |-> whEntry.end_date,
                   current |-> whEntry.current,
                   text |-> date_range(whEntry)]
    /\ UNCHANGED <<whEntry, whOp>>
    /\ UNCHANGED <<phoneVars, gpaVars, catalogVars, genVars, nameVars,
                   urlVars, formVars, roleVars, profileVars,
                 skillVars,
                 headerVars,
                 volunteerVars,
                 tripVars>>

WorkInit ==
    /\ whEntry = NoEntry
    /\ whOp = NoOp
    /\ whRange = NoRange

(***************************************************************************)
(* GPA rescaling  (src/app.py convert_gpa, src/models.py Education.gpa)    *)
(***************************************************************************)
\* longest GPA text drawn as input
MaxGpaLen == 4

RECURSIVE Pow10(_)
Pow10(n) == IF n = 0 THEN 1 ELSE 10 * Pow10(n - 1)

\* numbers are fixed-point: a value x is the integer x * GpaScale, which is
\* exact for every decimal text of at most MaxGpaLen characters
GpaFracWidth == MaxGpaLen - 1
GpaScale == Pow10(GpaFracWidth)

DigitVal(c) ==
    CASE c = "0" -> 0 [] c = "1" -> 1 [] c = "2" -> 2 [] c = "3" -> 3
      [] c = "4" -> 4 [] c = "5" -> 5 [] c = "6" -> 6 [] c = "7" -> 7
      [] c = "8" -> 8 [] c = "9" -> 9

RECURSIVE DecVal(_)
DecVal(ds) ==
    IF ds = <<>> THEN 0
    ELSE 10 * DecVal(SubSeq(ds, 1, Len(ds) - 1)) + DigitVal(ds[Len(ds)])

RECURSIVE IntToStr(_)
IntToStr(n) ==
    LET d == <<"0", "1", "2", "3", "4", "5", "6", "7", "8", "9">>[(n % 10) + 1]
    IN  IF n < 10 THEN <<d>> ELSE IntToStr(n \div 10) \o <<d>>

\* float(text) for plain decimal text: optional sign, digits with at most one
\* point and at least one digit; anything else raises ValueError
ParseFloat(text) ==
    LET t == Strip(text)
        neg == t # <<>> /\ Head(t) = "-"
        body == IF neg THEN Tail(t) ELSE t
        points == {i \in 1..Len(body) : body[i] = "."}
        wellFormed ==
            /\ \A i \in 1..Len(body) : body[i] \in DigitChars \cup {"."}
            /\ Cardinality(points) <= 1
            /\ \E i \in 1..Len(body) : body[i] \in DigitChars
        dot == IF points = {} THEN Len(body) + 1 ELSE CHOOSE i \in points : TRUE
        whole == SubSeq(body, 1, dot - 1)
        frac == SubSeq(body, dot + 1, Len(body))
        mag == DecVal(whole) * GpaScale
                 + DecVal(frac) * Pow10(GpaFracWidth - Len(frac))
    IN  IF wellFormed
        THEN [ok |-> TRUE, val |-> IF neg THEN 0 - mag ELSE mag]
        ELSE [ok |-> FALSE, val |-> 0]

\* round(num/den, 2) in hundredths, ties to even as Python's round; den is
\* a multiple of 100 (GpaScale is, for MaxGpaLen >= 3)
RoundHundredths(num, den) ==
    LET unit == den \div 100
        q == num \div unit
        r == num % unit
    IN  IF 2 * r < unit THEN q
        ELSE IF 2 * r > unit THEN q + 1
        ELSE IF q % 2 = 0 THEN q ELSE q + 1

\* the absent GPA (None); stored GPAs are in hundredths
NoGpa == -1000000

Gpa4 == 4 * GpaScale
Gpa10 == 10 * GpaScale
Gpa100 == 100 * GpaScale

\* convert_gpa with the 10-point boundary excluded (gpa < 10.0)
convert_gpa_open10(gpa_value) ==
    LET text == IF gpa_value.kind = "num" THEN IntToStr(gpa_value.num)
                ELSE gpa_value.text
        f == ParseFloat(text)
        gpa == f.val
    IN  IF gpa_value.kind = "none" \/ Strip(text) = <<>> THEN NoGpa
        ELSE IF ~f.ok THEN NoGpa
        ELSE IF gpa <= Gpa4 THEN RoundHundredths(gpa, GpaScale)
        ELSE IF gpa < Gpa10 THEN RoundHundredths(gpa * 4, 10 * GpaScale)
        ELSE IF gpa <= Gpa100 THEN RoundHundredths(gpa * 4, 100 * GpaScale)
        ELSE 400

\* convert_gpa: gpa_value is None, a number or a string
convert_gpa(gpa_value) ==
    LET text == IF gpa_value.kind = "num" THEN IntToStr(gpa_value.num)
                ELSE gpa_value.text
        f == ParseFloat(text)
        gpa == f.val
    IN  IF gpa_value.kind = "none" \/ Strip(text) = <<>> THEN NoGpa
        ELSE IF ~f.ok THEN NoGpa
        ELSE IF gpa <= Gpa4 THEN RoundHundredths(gpa, GpaScale)
        ELSE IF gpa <= Gpa10 THEN RoundHundredths(gpa * 4, 10 * GpaScale)
        ELSE IF gpa <= Gpa100 THEN RoundHundredths(gpa * 4, 100 * GpaScale)
        ELSE 400

\* Education.gpa: Optional[float] = Field(None, ge=0.0, le=4.0)
EducationGpa(v) ==
    IF v = NoGpa THEN [ok |-> TRUE, gpa |-> NoGpa]
    ELSE IF v >= 0 /\ v <= 400 THEN [ok |-> TRUE, gpa |-> v]
    ELSE [ok |-> FALSE, gpa |-> NoGpa]

GpaChars == {"0", "1", "4", "5", "8", ".", "-", " ", "a"}
MaxGpaNum == 101

RECURSIVE TextsUpTo(_, _)
TextsUpTo(chars, n) ==
    IF n = 0 THEN {<<>>}
    ELSE LET shorter == TextsUpTo(chars, n - 1)
         IN  shorter \cup {Append(t, c) : t \in shorter, c \in chars}

GpaInputs ==
    {[kind |-> "none", num |-> 0, text |-> <<>>]}
      \cup {[kind |-> "num", num |-> n, text |-> <<>>] : n \in 0..MaxGpaNum}
      \cup {[kind |-> "str", num |-> 0, text |-> t] :
              t \in TextsUpTo(GpaChars, MaxGpaLen)}

GpaUnset == [done |-> FALSE, ok |-> FALSE, gpa |-> NoGpa]

GpaInit ==
    /\ gpaIn \in GpaInputs
    /\ gpaOut = GpaUnset

GpaIdle ==
    /\ gpaIn = [kind |-> "none", num |-> 0, text |-> <<>>]
    /\ gpaOut = GpaUnset

\* Education(..., gpa=convert_gpa(edu.get("gpa")))
BuildEducation ==
    LET e == EducationGpa(convert_gpa(gpaIn))
    IN  /\ ~gpaOut.done
        /\ gpaOut' = [done |-> TRUE, ok |-> e.ok, gpa |-> e.gpa]
        /\ UNCHANGED <<gpaIn, phoneVars, workVars, catalogVars, genVars,
                 nameVars,
                 urlVars,
                 formVars,
                 roleVars,
                 profileVars,
                 skillVars,
                 headerVars,
                 volunteerVars,
                 tripVars>>

(***************************************************************************)
(* MOS catalog  (src/services/mapping_service.py)                          *)
(***************************************************************************)
UpperChars == <<"A", "B", "C", "D", "E", "F", "G", "H", "I", "J", "K", "L",
    "M", "N", "O", "P", "Q", "R", "S", "T", "U", "V", "W", "X", "Y", "Z">>
LowerChars == <<"a", "b", "c", "d", "e", "f", "g", "h", "i", "j", "k", "l",
    "m", "n", "o", "p", "q", "r", "s", "t", "u", "v", "w", "x", "y", "z">>

\* the characters of the model in code point order
CodePoints == <<" ", ",", "-", ".", "/", "0", "1", "2", "3", "4", "5", "6", "7",
    "8", "9", "A", "B", "C", "D", "E", "F", "G", "H", "I", "J", "K", "L",
    "M", "N", "O", "P", "Q", "R", "S", "T", "U", "V", "W", "X", "Y", "Z",
    "a", "b", "c", "d", "e", "f", "g", "h", "i", "j", "k", "l", "m", "n",
    "o", "p", "q", "r", "s", "t", "u", "v", "w", "x", "y", "z", "|">>

CharSet == {CodePoints[i] : i \in 1..Len(CodePoints)}

\* ord(c), as a table over the characters of the model
OrdTable ==
    [c \in CharSet |-> CHOOSE i \in 1..Len(CodePoints) : CodePoints[i] = c]

CharOrd(c) == OrdTable[c]

LowerTable ==
    [c \in CharSet |->
        IF \E i \in 1..Len(UpperChars) : UpperChars[i] = c
        THEN LowerChars[CHOOSE i \in 1..Len(UpperChars) : UpperChars[i] = c]
        ELSE c]

UpperTable ==
    [c \in CharSet |->
        IF \E i \in 1..Len(LowerChars) : LowerChars[i] = c
        THEN UpperChars[CHOOSE i \in 1..Len(LowerChars) : LowerChars[i] = c]
        ELSE c]

LowerChar(c) == LowerTable[c]
UpperChar(c) == UpperTable[c]

\* str.lower(), str.upper()
Lower(s) == [i \in 1..Len(s) |-> LowerChar(s[i])]
Upper(s) == [i \in 1..Len(s) |-> UpperChar(s[i])]

\* needle in hay
Contains(needle, hay) ==
    \E i \in 0..(Len(hay) - Len(needle)) :
        SubSeq(hay, i + 1, i + Len(needle)) = needle

\* a < b for Python strings
RECURSIVE StrLess(_, _)
StrLess(a, b) ==
    IF b = <<>> THEN FALSE
    ELSE IF a = <<>> THEN TRUE
    ELSE IF Head(a) = Head(b) THEN StrLess(Tail(a), Tail(b))
    ELSE CharOrd(Head(a)) < CharOrd(Head(b))

\* s.split(sep) for a one-character separator
RECURSIVE SplitOn(_, _)
SplitOn(s, sep) ==
    IF \E i \in 1..Len(s) : s[i] = sep
    THEN LET k == CHOOSE i \in 1..Len(s) :
                     s[i] = sep /\ \A j \in 1..(i - 1) : s[j] # sep
         IN  <<SubSeq(s, 1, k - 1)>> \o SplitOn(SubSeq(s, k + 1, Len(s)), sep)
    ELSE <<s>>

NonEmpty(s) == s # <<>>

\* [w.strip() for w in s.split(',') if w.strip()]
CommaParts(s) ==
    LET parts == SplitOn(s, ",")
    IN  SelectSeq([i \in 1..Len(parts) |-> Strip(parts[i])], NonEmpty)

LongWord(w) == Len(w) > 3

\* [w.strip() for w in s.split() if len(w.strip()) > 3]
LongWords(s) == SelectSeq(SelectSeq(SplitOn(s, " "), NonEmpty), LongWord)

\* MOSMapping.matches_query
matches_query(m, query) ==
    LET query_lower == Lower(query)
    IN  \/ Contains(query_lower, Lower(m.code))
        \/ Contains(query_lower, Lower(m.title))
        \/ (m.title_military # <<>>
              /\ Contains(query_lower, Lower(m.title_military)))
        \/ (m.civilian_equivalent # <<>>
              /\ Contains(query_lower, Lower(m.civilian_equivalent)))
        \/ (m.soc_title # <<>> /\ Contains(query_lower, Lower(m.soc_title)))
        \/ (m.onet_occupation # <<>>
              /\ Contains(query_lower, Lower(m.onet_occupation)))
        \/ \E i \in 1..Len(m.skills) : Contains(query_lower, Lower(m.skills[i]))
        \/ \E i \in 1..Len(m.keywords) :
               Contains(query_lower, Lower(m.keywords[i]))

\* the dict self._mappings as a sequence of [key, val] in insertion order;
\* d[k] = v keeps the position of a key that is already present
DictHas(d, k) == \E i \in 1..Len(d) : d[i].key = k

DictPut(d, k, v) ==
    IF DictHas(d, k)
    THEN [i \in 1..Len(d) |-> IF d[i].key = k THEN [key |-> k, val |-> v]
                              ELSE d[i]]
    ELSE Append(d, [key |-> k, val |-> v])

DictValues(d) == [i \in 1..Len(d) |-> d[i].val]

\* d.get(k), None as NoMapping
NoMapping == [code |-> <<>>]
DictGet(d, k) ==
    IF DictHas(d, k) THEN d[CHOOSE i \in 1..Len(d) : d[i].key = k].val
    ELSE NoMapping

\* branch_map of _load_mappings, branch_map.get(b, b)
BranchMap(b) ==
    CASE b = <<"A">> -> <<"A", "r", "m", "y">>
      [] b = <<"N">> -> <<"N", "a", "v", "y">>
      [] b = <<"A", "F">> -> <<"A", "i", "r", " ", "F", "o", "r", "c", "e">>
      [] b = <<"M">> -> <<"M", "a", "r", "i", "n", "e", "s">>
      [] b = <<"C", "G">> -> <<"C", "o", "a", "s", "t", " ", "G", "u", "a",
          "r", "d">>
      [] b = <<"S", "F">> -> <<"S", "p", "a", "c", "e", " ", "F", "o", "r",
          "c", "e">>
      [] b = <<"V">> -> <<"N", "a", "v", "y">>
      [] OTHER -> b

\* the body of the row loop of _load_mappings for one row with a non-empty
\* code
RowMapping(row) ==
    LET code == Upper(Strip(row.code))
        lookup_key == row.csv_lookup_key
        branch_code == row.branch_code
        branch ==
            IF lookup_key # <<>> /\ Contains(<<"|">>, lookup_key)
            THEN BranchMap(Strip(SplitOn(lookup_key, "|")[1]))
            ELSE IF branch_code # <<>> THEN BranchMap(branch_code)
            ELSE <<"U", "n", "k", "n", "o", "w", "n">>
        soc_title == Strip(row.soc_title)
        onet_occupation == Strip(row.onet_occupation)
        civilian_equivalent ==
            IF soc_title # <<>> THEN soc_title ELSE onet_occupation
        skills == IF soc_title # <<>> THEN CommaParts(soc_title) ELSE <<>>
        title_military == Strip(row.title_military)
        keywords ==
            IF title_military # <<>> THEN LongWords(title_military) ELSE <<>>
    IN  [code |-> code,
         branch |-> branch,
         branch_code |-> Strip(row.branch_code),
         title |-> title_military,
         title_military |-> title_military,
         soc_code_title |-> Strip(row.soc_code_title),
         soc_title |-> soc_title,
         onet_occupation |-> onet_occupation,
         csv_lookup_key |-> lookup_key,
         civilian_equivalent |-> civilian_equivalent,
         skills |-> skills,
         keywords |-> keywords]

\* MOSMappingService._load_mappings: the row loop over the data frame
RECURSIVE LoadRows(_, _)
LoadRows(rows, index) ==
    IF rows = <<>> THEN index
    ELSE LET row == Head(rows)
             code == Upper(Strip(row.code))
             mapping == RowMapping(row)
             byCode == DictPut(index, code, mapping)
             byKey == IF row.csv_lookup_key # <<>>
                      THEN DictPut(byCode, row.csv_lookup_key, mapping)
                      ELSE byCode
         IN  IF code = <<>> THEN LoadRows(Tail(rows), index)
             ELSE LoadRows(Tail(rows), byKey)

\* the sort key without the exact-code component
SortKey_noexact(m, query) ==
    [exact |-> 1,
     title |-> IF Contains(Lower(query), Lower(m.title)) THEN 0 ELSE 1,
     code |-> m.code]

\* the sort key of search_mos, compared as Python compares tuples
SortKey(m, query) ==
    [exact |-> IF m.code = Upper(query) THEN 0 ELSE 1,
     title |-> IF Contains(Lower(query), Lower(m.title)) THEN 0 ELSE 1,
     code |-> m.code]

\* tuple comparison with the code tie-break descending
KeyLess_codedesc(a, b) ==
    \/ a.exact < b.exact
    \/ a.exact = b.exact /\ a.title < b.title
    \/ a.exact = b.exact /\ a.title = b.title /\ StrLess(b.code, a.code)

KeyLess(a, b) ==
    \/ a.exact < b.exact
    \/ a.exact = b.exact /\ a.title < b.title
    \/ a.exact = b.exact /\ a.title = b.title /\ StrLess(a.code, b.code)

\* list.sort(key=...): stable, an element goes before the first one whose key
\* is strictly greater
RECURSIVE SortMatches(_, _)
SortMatches(ms, query) ==
    IF ms = <<>> THEN <<>>
    ELSE LET x == ms[Len(ms)]
             sorted == SortMatches(SubSeq(ms, 1, Len(ms) - 1), query)
             later == {i \in 1..Len(sorted) :
                          KeyLess(SortKey(x, query), SortKey(sorted[i], query))}
             pos == IF later = {} THEN Len(sorted) + 1
                    ELSE CHOOSE i \in later : \A j \in later : i <= j
         IN  SubSeq(sorted, 1, pos - 1) \o <<x>>
                 \o SubSeq(sorted, pos, Len(sorted))

\* seq[:limit]
SlicePrefix(seq, limit) ==
    IF limit >= 0
    THEN SubSeq(seq, 1, IF limit < Len(seq) THEN limit ELSE Len(seq))
    ELSE SubSeq(seq, 1, IF Len(seq) + limit > 0 THEN Len(seq) + limit ELSE 0)

\* MOSMappingService.search_mos
search_mos(index, query, limit) ==
    LET Matches(m) == matches_query(m, query)
        matches == SelectSeq(DictValues(index), Matches)
    IN  IF query = <<>> \/ Len(query) < 2 THEN <<>>
        ELSE SlicePrefix(SortMatches(matches, query), limit)

\* MOSMappingService.get_mos
get_mos(index, code) == DictGet(index, Upper(code))

\* rows of the reference dataset, as read from the file
RowPool ==
    { [code |-> <<" ", "1", "1", "b", " ">>, title_military |-> <<"I", "n",
        "f", "a", "n", "t", "r", "y", "m", "a", "n">>,
       soc_title |-> <<"G", "u", "a", "r", "d", "s", ",", " ", "P", "a", "t",
           "r", "o", "l">>, onet_occupation |-> <<>>,
       csv_lookup_key |-> <<"A", "|", "1", "1", "B">>,
           branch_code |-> <<"A">>,
       soc_code_title |-> <<"S", "e", "c", "u", "r", "i", "t", "y">>],
      [code |-> <<"1", "1", "B">>, title_military |-> <<"R", "i", "f", "l",
          "e", "m", "a", "n">>,
       soc_title |-> <<>>, onet_occupation |-> <<"P", "o", "l", "i", "c",
           "e", " ", "P", "a", "t", "r", "o", "l">>,
       csv_lookup_key |-> <<"N", "a", "v", "y", "|", "1", "1", "B">>,
           branch_code |-> <<"N">>,
       soc_code_title |-> <<>>],
      [code |-> <<"1", "1", "B", "X">>, title_military |-> <<"S", "c", "o",
          "u", "t", " ", "1", "1", "B">>,
       soc_title |-> <<>>, onet_occupation |-> <<>>,
       csv_lookup_key |-> <<>>, branch_code |-> <<>>,
       soc_code_title |-> <<>>],
      [code |-> <<"7">>, title_military |-> <<"C", "o", "o", "k">>,
       soc_title |-> <<"C", "h", "e", "f", "s">>, onet_occupation |-> <<>>,
       csv_lookup_key |-> <<>>, branch_code |-> <<"A", "F">>,
       soc_code_title |-> <<>>],
      [code |-> <<>>, title_military |-> <<"G", "h", "o", "s", "t">>,
       soc_title |-> <<>>, onet_occupation |-> <<>>,
       csv_lookup_key |-> <<"X", "|", "0">>, branch_code |-> <<>>,
       soc_code_title |-> <<>>],
      [code |-> <<"0", "1", "1", "B">>, title_military |-> <<"I", "n", "f",
          "a", "n", "t", "r", "y", " ", "1", "1", "b", " ", "L", "e", "a",
          "d">>,
       soc_title |-> <<>>, onet_occupation |-> <<>>,
       csv_lookup_key |-> <<>>, branch_code |-> <<"M">>,
       soc_code_title |-> <<>>],
      [code |-> <<"2", "5", "U">>, title_military |-> <<"S", "i", "g", "n",
          "a", "l">>,
       soc_title |-> <<"I", "n", "f", "a", "n", "t", "r", "y", " ", "T", "r",
           "a", "i", "n", "e", "r", "s">>, onet_occupation |-> <<>>,
       csv_lookup_key |-> <<>>, branch_code |-> <<>>,
       soc_code_title |-> <<>>],
      [code |-> <<"8", "8", "M">>, title_military |-> <<>>,
       soc_title |-> <<>>, onet_occupation |-> <<>>,
       csv_lookup_key |-> <<>>, branch_code |-> <<>>,
       soc_code_title |-> <<"I", "n", "f", "a", "n", "t", "r", "y">>] }

\* most rows in a dataset, largest limit asked for
MaxRows == 2
MaxLimit == 4

RECURSIVE RowSeqs(_)
RowSeqs(n) ==
    IF n = 0 THEN {<<>>}
    ELSE LET shorter == RowSeqs(n - 1)
         IN  shorter \cup {Append(rs, r) : rs \in shorter, r \in RowPool}

Queries ==
    { <<"1", "1", "b">>,
      <<"1", "1", "B">>,
      <<"7">>,
      <<"i", "n", "f">>,
      <<>>,
      <<"p", "a", "t", "r", "o", "l">>,
      <<"2", "5", "u">>,
      <<"z", "z">> }

NoSearch == [done |-> FALSE, query |-> <<>>, limit |-> 0, results |-> <<>>]
NoLookup == [done |-> FALSE, code |-> <<>>, result |-> NoMapping]

\* keys asked of get_mos
LookupKeys ==
    { <<"1", "1", "B">>, <<"1", "1", "b">>, <<"A", "|", "1", "1", "B">>,
      <<"N", "a", "v", "y", "|", "1", "1", "B">>,
      <<"n", "a", "v", "y", "|", "1", "1", "b">>, <<"Z", "Z">> }

\* _load_mappings with a missing file treated as an error
_load_mappings_strict(file, rows) ==
    IF file = "readable"
    THEN [outcome |-> "loaded", index |-> LoadRows(rows, <<>>)]
    ELSE [outcome |-> "raised", index |-> <<>>]

\* MOSMappingService._load_mappings: a missing file is logged as a warning
\* and leaves the index empty; an exception while the file is read is
\* logged and raised again; otherwise the rows are indexed
_load_mappings(file, rows) ==
    IF file = "missing" THEN [outcome |-> "warned", index |-> <<>>]
    ELSE IF file = "malformed" THEN [outcome |-> "raised", index |-> <<>>]
    ELSE [outcome |-> "loaded", index |-> LoadRows(rows, <<>>)]

CatalogInit ==
    /\ \/ dataFile = "readable" /\ dataRows \in RowSeqs(MaxRows)
       \/ dataFile \in {"missing", "malformed"} /\ dataRows = <<>>
    /\ loadOutcome = "none"
    /\ loaded = FALSE
    /\ mappings = <<>>
    /\ searchOp = NoSearch
    /\ lookupOp = NoLookup

CatalogIdle ==
    /\ dataFile = "missing"
    /\ dataRows = <<>>
    /\ loadOutcome = "none"
    /\ loaded = FALSE
    /\ mappings = <<>>
    /\ searchOp = NoSearch
    /\ lookupOp = NoLookup

\* MOSMappingService(): self._mappings = {} then _load_mappings(); the
\* service exists unless _load_mappings raised
Load ==
    LET l == _load_mappings(dataFile, dataRows)
    IN  /\ loadOutcome = "none"
        /\ loadOutcome' = l.outcome
        /\ loaded' = (l.outcome # "raised")
        /\ mappings' = l.index
        /\ UNCHANGED <<dataFile, dataRows, searchOp, lookupOp>>
        /\ UNCHANGED <<phoneVars, workVars, gpaVars, genVars, nameVars,
                       urlVars, formVars, roleVars, profileVars,
                 skillVars,
                 headerVars,
                 volunteerVars,
                 tripVars>>

\* service.search_mos(query, limit)
Search(query, limit) ==
    /\ loaded
    /\ searchOp' = [done |-> TRUE, query |-> query, limit |-> limit,
                    results |-> search_mos(mappings, query, limit)]
    /\ lookupOp' = NoLookup
    /\ UNCHANGED <<dataFile, dataRows, loadOutcome, loaded, mappings>>
    /\ UNCHANGED <<phoneVars, workVars, gpaVars, genVars, nameVars,
                   urlVars, formVars, roleVars, profileVars,
                 skillVars,
                 headerVars,
                 volunteerVars,
                 tripVars>>

\* service.get_mos(code)
GetMos(code) ==
    /\ loaded
    /\ lookupOp' = [done |-> TRUE, code |-> code,
                    result |-> get_mos(mappings, code)]
    /\ searchOp' = NoSearch
    /\ UNCHANGED <<dataFile, dataRows, loadOutcome, loaded, mappings>>
    /\ UNCHANGED <<phoneVars, workVars, gpaVars, genVars, nameVars,
                   urlVars, formVars, roleVars, profileVars,
                 skillVars,
                 headerVars,
                 volunteerVars,
                 tripVars>>

(***************************************************************************)
(* Resume generation  (src/services/resume_service.py,                     *)
(*                     src/services/resume_generator.py)                   *)
(***************************************************************************)
\* most entries in a profile list, latest reading of the clock
MaxEntries == 1
MaxClock == 1

LowerAlnum == {LowerChars[i] : i \in 1..Len(LowerChars)} \cup DigitChars

\* re.sub(r'[^a-z0-9]+', '_', name): each run of other characters becomes
\* one underscore
RECURSIVE SubNonAlnum(_, _)
SubNonAlnum(name, inRun) ==
    IF name = <<>> THEN <<>>
    ELSE IF Head(name) \in LowerAlnum
         THEN <<Head(name)>> \o SubNonAlnum(Tail(name), FALSE)
    ELSE IF inRun THEN SubNonAlnum(Tail(name), TRUE)
    ELSE <<"_">> \o SubNonAlnum(Tail(name), TRUE)

\* name.strip('_')
StripUnderscores(name) ==
    LET keep == {i \in 1..Len(name) : name[i] # "_"}
    IN  IF keep = {} THEN <<>>
        ELSE SubSeq(name, CHOOSE i \in keep : \A j \in keep : i <= j,
                          CHOOSE i \in keep : \A j \in keep : i >= j)

\* ResumeService._generate_filename: resume_<name>_<timestamp>.docx, the
\* timestamp having a resolution of one second
_generate_filename(profile, now) ==
    [auto |-> TRUE,
     name |-> StripUnderscores(SubNonAlnum(Lower(profile.full_name), FALSE)),
     stamp |-> now]

CustomFilename ==
    [auto |-> FALSE,
     name |-> <<"c", "u", "s", "t", "o", "m", ".", "d", "o", "c", "x">>,
     stamp |-> 0]
NoPath == [auto |-> FALSE, name |-> <<>>, stamp |-> 0]

\* DocxResumeGenerator._add_skills_section: the section is added only when
\* the merged skills list is not empty
SkillsBlocks(profile) ==
    IF profile.core_skills > 0
    THEN <<[section |-> "SKILLS", rows |-> 1]>>
    ELSE <<>>

\* DocxResumeGenerator._add_branch_section
BranchBlocks(profile) ==
    IF profile.branch THEN <<[section |-> "branch", rows |-> 1]>> ELSE <<>>

\* DocxResumeGenerator._add_additional_sections
AdditionalBlocks(profile) ==
    IF ~profile.additional_info THEN <<>>
    ELSE (IF profile.awards > 0
          THEN <<[section |-> "AWARDS & HONORS", rows |-> profile.awards]>>
          ELSE <<>>)
         \o (IF profile.volunteer > 0
             THEN <<[section |-> "VOLUNTEER EXPERIENCE",
                     rows |-> profile.volunteer]>>
             ELSE <<>>)

\* generate with the experience section added whether or not the profile
\* has work history
LayoutDocument_unguarded(profile) ==
    <<[section |-> "header", rows |-> 1]>>
      \o BranchBlocks(profile)
      \o (IF profile.summary
          THEN <<[section |-> "SUMMARY", rows |-> 1]>> ELSE <<>>)
      \o <<[section |-> "PROFESSIONAL EXPERIENCE",
            rows |-> profile.work_history]>>
      \o (IF profile.education > 0 \/ profile.certifications > 0
          THEN <<[section |-> "EDUCATION & CERTIFICATIONS",
                  rows |-> profile.education
                             + ((profile.certifications + 1) \div 2)]>>
          ELSE <<>>)
      \o SkillsBlocks(profile)
      \o AdditionalBlocks(profile)

\* DocxResumeGenerator.generate up to doc.save: the blocks of the document
\* in order, with the rows of each
LayoutDocument(profile) ==
    <<[section |-> "header", rows |-> 1]>>
      \o BranchBlocks(profile)
      \o (IF profile.summary
          THEN <<[section |-> "SUMMARY", rows |-> 1]>> ELSE <<>>)
      \o (IF profile.work_history > 0
          THEN <<[section |-> "PROFESSIONAL EXPERIENCE",
                  rows |-> profile.work_history]>>
          ELSE <<>>)
      \o (IF profile.education > 0 \/ profile.certifications > 0
          THEN <<[section |-> "EDUCATION & CERTIFICATIONS",
                  rows |-> profile.education
                             + ((profile.certifications + 1) \div 2)]>>
          ELSE <<>>)
      \o SkillsBlocks(profile)
      \o AdditionalBlocks(profile)

Names ==
    { <<"J", "a", "n", "e", " ", "D", "o", "e">>,
      <<"J", ".", "R", ".", " ", "R", "o", "e", "-", "P", "o", "e">> }

Profiles ==
    [full_name : Names, branch : BOOLEAN, summary : BOOLEAN,
     work_history : 0..MaxEntries, education : 0..MaxEntries,
     certifications : 0..MaxEntries, core_skills : 0..1,
     additional_info : BOOLEAN, awards : 0..1, volunteer : 0..1]

NoProfile ==
    [full_name |-> <<>>, branch |-> FALSE, summary |-> FALSE,
     work_history |-> 0, education |-> 0, certifications |-> 0,
     core_skills |-> 0, additional_info |-> FALSE, awards |-> 0,
     volunteer |-> 0]

NoFault == [kind |-> "none", mentions |-> {}]
NoResult ==
    [kind |-> "none", type |-> "none", cause |-> NoFault,
     context |-> NoFault, mentions |-> {}]

\* the except clause of generate_resume:
\* raise Exception(f"Failed to generate resume: {e}"), raised while e is
\* being handled and without "from e"
WrapFailure(e) ==
    [kind |-> "exception", type |-> "Exception", cause |-> NoFault,
     context |-> e, mentions |-> e.mentions]

GenInit ==
    /\ genPc = "idle"
    /\ genProfile = NoProfile
    /\ genPath = NoPath
    /\ genDoc = <<>>
    /\ genResult = NoResult
    /\ outFile \in {"absent", "complete"}

GenIdle ==
    /\ genPc = "idle"
    /\ genProfile = NoProfile
    /\ genPath = NoPath
    /\ genDoc = <<>>
    /\ genResult = NoResult
    /\ outFile = "absent"

\* generate_resume(profile, output_filename=f): the file name and the
\* output path are settled, then the generator is entered
GenerateResume(profile, custom, now) ==
    /\ genPc = "idle"
    /\ genProfile' = profile
    /\ genPath' = IF custom THEN CustomFilename
                  ELSE _generate_filename(profile, now)
    /\ genPc' = "layout"
    /\ UNCHANGED <<genDoc, genResult, outFile>>
    /\ UNCHANGED <<phoneVars, workVars, gpaVars, catalogVars,
                 nameVars,
                 urlVars,
                 formVars,
                 roleVars,
                 profileVars,
                 skillVars,
                 headerVars,
                 volunteerVars,
                 tripVars>>

\* generate: the document is built in memory
Layout ==
    /\ genPc = "layout"
    /\ genDoc' = LayoutDocument(genProfile)
    /\ genPc' = "save"
    /\ UNCHANGED <<genProfile, genPath, genResult, outFile>>
    /\ UNCHANGED <<phoneVars, workVars, gpaVars, catalogVars,
                 nameVars,
                 urlVars,
                 formVars,
                 roleVars,
                 profileVars,
                 skillVars,
                 headerVars,
                 volunteerVars,
                 tripVars>>

\* generate: a layout call raises; generate_resume wraps and re-raises
LayoutFails ==
    /\ genPc = "layout"
    /\ genResult' = WrapFailure([kind |-> "layout", mentions |-> {}])
    /\ genPc' = "raised"
    /\ UNCHANGED <<genProfile, genPath, genDoc, outFile>>
    /\ UNCHANGED <<phoneVars, workVars, gpaVars, catalogVars,
                 nameVars,
                 urlVars,
                 formVars,
                 roleVars,
                 profileVars,
                 skillVars,
                 headerVars,
                 volunteerVars,
                 tripVars>>

\* doc.save(output_path): the file at the output path is opened for writing
SaveOpens ==
    /\ genPc = "save"
    /\ outFile' = "partial"
    /\ genPc' = "writing"
    /\ UNCHANGED <<genProfile, genPath, genDoc, genResult>>
    /\ UNCHANGED <<phoneVars, workVars, gpaVars, catalogVars,
                 nameVars,
                 urlVars,
                 formVars,
                 roleVars,
                 profileVars,
                 skillVars,
                 headerVars,
                 volunteerVars,
                 tripVars>>

\* doc.save(output_path): the open fails (the OSError names the path);
\* generate_resume wraps and re-raises
SaveOpenFails ==
    /\ genPc = "save"
    /\ genResult' = WrapFailure([kind |-> "io", mentions |-> {"output_path"}])
    /\ genPc' = "raised"
    /\ UNCHANGED <<genProfile, genPath, genDoc, outFile>>
    /\ UNCHANGED <<phoneVars, workVars, gpaVars, catalogVars,
                 nameVars,
                 urlVars,
                 formVars,
                 roleVars,
                 profileVars,
                 skillVars,
                 headerVars,
                 volunteerVars,
                 tripVars>>

\* doc.save(output_path): all parts are written and the file is closed;
\* generate_resume returns output_path
SaveCompletes ==
    /\ genPc = "writing"
    /\ outFile' = "complete"
    /\ genResult' = [kind |-> "path", type |-> "none", cause |-> NoFault,
                     context |-> NoFault, mentions |-> {"output_path"}]
    /\ genPc' = "returned"
    /\ UNCHANGED <<genProfile, genPath, genDoc>>
    /\ UNCHANGED <<phoneVars, workVars, gpaVars, catalogVars,
                 nameVars,
                 urlVars,
                 formVars,
                 roleVars,
                 profileVars,
                 skillVars,
                 headerVars,
                 volunteerVars,
                 tripVars>>

\* doc.save(output_path): a write fails part way; nothing removes the file;
\* generate_resume wraps and re-raises
SaveWriteFails ==
    /\ genPc = "writing"
    /\ genResult' = WrapFailure([kind |-> "io", mentions |-> {}])
    /\ genPc' = "raised"
    /\ UNCHANGED <<genProfile, genPath, genDoc, outFile>>
    /\ UNCHANGED <<phoneVars, workVars, gpaVars, catalogVars,
                 nameVars,
                 urlVars,
                 formVars,
                 roleVars,
                 profileVars,
                 skillVars,
                 headerVars,
                 volunteerVars,
                 tripVars>>

(***************************************************************************)
(* Output paths of generate calls  (src/services/resume_service.py)        *)
(***************************************************************************)
\* generate_resume calls that may be in flight at once
MaxCalls == 3
CallIds == 1..MaxCalls

NoCall == [pc |-> "idle", path |-> NoPath]

NameInit ==
    /\ nameClock = 0
    /\ nameCalls = [i \in CallIds |-> NoCall]

NameIdle ==
    /\ nameClock = 0
    /\ nameCalls = [i \in CallIds |-> NoCall]

\* a second passes on the clock read by datetime.now()
Tick ==
    /\ nameClock < MaxClock
    /\ nameClock' = nameClock + 1
    /\ UNCHANGED nameCalls
    /\ UNCHANGED <<phoneVars, workVars, gpaVars, catalogVars, genVars,
                 urlVars,
                 formVars,
                 roleVars,
                 profileVars,
                 skillVars,
                 headerVars,
                 volunteerVars,
                 tripVars>>

\* call i enters generate_resume(profile) with output_filename omitted:
\* output_path = output_dir / _generate_filename(profile)
ResolvePath(i, name) ==
    /\ nameCalls[i].pc = "idle"
    /\ nameCalls' =
          [nameCalls EXCEPT
              ![i] = [pc |-> "resolved",
                      path |-> _generate_filename([full_name |-> name],
                                                  nameClock)]]
    /\ UNCHANGED nameClock
    /\ UNCHANGED <<phoneVars, workVars, gpaVars, catalogVars, genVars,
                 urlVars,
                 formVars,
                 roleVars,
                 profileVars,
                 skillVars,
                 headerVars,
                 volunteerVars,
                 tripVars>>

\* call i reaches doc.save(output_path) and returns the path
SavePath(i) ==
    /\ nameCalls[i].pc = "resolved"
    /\ nameCalls' = [nameCalls EXCEPT ![i].pc = "saved"]
    /\ UNCHANGED nameClock
    /\ UNCHANGED <<phoneVars, workVars, gpaVars, catalogVars, genVars,
                 urlVars,
                 formVars,
                 roleVars,
                 profileVars,
                 skillVars,
                 headerVars,
                 volunteerVars,
                 tripVars>>

(***************************************************************************)
(* Contact.linkedin, Contact.portfolio  (src/models.py)                    *)
(***************************************************************************)
\* s.startswith(prefix)
StartsWith(s, prefix) ==
    Len(s) >= Len(prefix) /\ SubSeq(s, 1, Len(prefix)) = prefix

HttpScheme == <<"h", "t", "t", "p", ":", "/", "/">>
HttpsScheme == <<"h", "t", "t", "p", "s", ":", "/", "/">>
LinkedinWord == <<"l", "i", "n", "k", "e", "d", "i", "n">>
LinkedinHost == <<"l", "i", "n", "k", "e", "d", "i", "n", ".", "c", "o", "m">>

\* a URL value is None or a string; the stored value likewise
NoUrl == [none |-> TRUE, text |-> <<>>]
UrlText(t) == [none |-> FALSE, text |-> t]

UrlOk(v) == [ok |-> TRUE, value |-> v, err |-> "none"]
UrlErr(e) == [ok |-> FALSE, value |-> NoUrl, err |-> e]

\* Contact.validate_urls, the validator of both linkedin and portfolio
validate_urls(v) ==
    IF v.none \/ v.text = <<>> \/ Strip(v.text) = <<>> THEN UrlOk(NoUrl)
    ELSE LET w == IF StartsWith(v.text, HttpScheme)
                     \/ StartsWith(v.text, HttpsScheme)
                  THEN v.text ELSE HttpsScheme \o v.text
         IN  IF Contains(LinkedinWord, w) /\ ~Contains(LinkedinHost, w)
             THEN UrlErr("linkedin_url") ELSE UrlOk(UrlText(w))

UrlTexts ==
    { <<>>,
      <<" ">>,
      <<"l", "i", "n", "k", "e", "d", "i", "n", ".", "c", "o", "m", "/", "i", "n",
        "/", "j", "d">>,
      <<"h", "t", "t", "p", "s", ":", "/", "/", "l", "i", "n", "k", "e", "d", "i",
        "n", ".", "c", "o", "m", "/", "i", "n", "/", "j", "d">>,
      <<"h", "t", "t", "p", ":", "/", "/", "l", "i", "n", "k", "e", "d", "i", "n",
        ".", "c", "o", "m", "/", "i", "n", "/", "j", "d">>,
      <<"e", "x", "a", "m", "p", "l", "e", ".", "c", "o", "m", "/", "j", "d">>,
      <<"h", "t", "t", "p", "s", ":", "/", "/", "e", "x", "a", "m", "p", "l", "e",
        ".", "c", "o", "m", "/", "j", "d">>,
      <<"l", "i", "n", "k", "e", "d", "i", "n", ".", "o", "r", "g", "/", "j", "d">>,
      <<"H", "T", "T", "P", "S", ":", "/", "/", "L", "i", "n", "k", "e", "d", "I",
        "n", ".", "c", "o", "m", "/", "j", "d">>,
      <<"m", "y", "-", "l", "i", "n", "k", "e", "d", "i", "n">> }

UrlInputs == {NoUrl} \cup {UrlText(t) : t \in UrlTexts}

NoUrlResult == [done |-> FALSE, linkedin |-> UrlErr("unset"),
                portfolio |-> UrlErr("unset")]

UrlInit ==
    /\ urlIn \in [linkedin : UrlInputs, portfolio : UrlInputs]
    /\ urlOut = NoUrlResult

UrlIdle ==
    /\ urlIn = [linkedin |-> NoUrl, portfolio |-> NoUrl]
    /\ urlOut = NoUrlResult

\* Contact(..., linkedin=urlIn.linkedin, portfolio=urlIn.portfolio)
ValidateUrls ==
    /\ ~urlOut.done
    /\ urlOut' = [done |-> TRUE, linkedin |-> validate_urls(urlIn.linkedin),
                  portfolio |-> validate_urls(urlIn.portfolio)]
    /\ UNCHANGED urlIn
    /\ UNCHANGED <<phoneVars, workVars, gpaVars, catalogVars, genVars,
                   nameVars,
                 formVars,
                 roleVars,
                 profileVars,
                 skillVars,
                 headerVars,
                 volunteerVars,
                 tripVars>>

(***************************************************************************)
(* Form validation  (src/app.py validate_contact_form,                     *)
(*                   validate_work_history_entry, validate_education_entry)*)
(***************************************************************************)
\* a value of a form dictionary: the key is missing, or holds None, a
\* string, an int or a date (a day number)
FMissing == [kind |-> "missing", text |-> <<>>, num |-> 0]
FNone == [kind |-> "none", text |-> <<>>, num |-> 0]
FStr(t) == [kind |-> "str", text |-> t, num |-> 0]
FInt(n) == [kind |-> "int", text |-> <<>>, num |-> n]
FDate(d) == [kind |-> "date", text |-> <<>>, num |-> d]

\* d.get(key, default) and d.get(key)
GetOr(v, default) == IF v.kind = "missing" THEN default ELSE v
Get(v) == GetOr(v, FNone)

\* bool(v)
Truthy(v) ==
    \/ v.kind = "str" /\ v.text # <<>>
    \/ v.kind = "int" /\ v.num # 0
    \/ v.kind = "date"

FieldError(f, m) == [field |-> f, msg |-> m]

\* what a validate_* call gives its caller: the pair it returns, or the
\* exception that leaves it
Returned(errors) ==
    [done |-> TRUE, raised |-> "none", is_valid |-> errors = <<>>,
     errors |-> errors]
Raised(exc) ==
    [done |-> TRUE, raised |-> exc, is_valid |-> FALSE, errors |-> <<>>]
NoOutcome ==
    [done |-> FALSE, raised |-> "none", is_valid |-> FALSE, errors |-> <<>>]

\* str = Field(..., min_length=2, max_length=200) for the strings drawn
StrMin2(f, v) ==
    IF v.kind # "str" THEN <<FieldError(f, "string_type")>>
    ELSE IF Len(v.text) < 2 THEN <<FieldError(f, "string_too_short")>>
    ELSE <<>>

\* a date field given a date object, None or one of the strings drawn, none
\* of which pydantic parses as a date
DateField(f, v, optional) ==
    IF v.kind = "date" \/ (optional /\ v.kind = "none") THEN <<>>
    ELSE IF v.kind = "str" THEN <<FieldError(f, "date_from_datetime_parsing")>>
    ELSE <<FieldError(f, "date_type")>>

DayOf(v) == IF v.kind = "date" THEN v.num ELSE NoDate

\* WorkHistory(title=..., organization=..., start_date=..., end_date=...):
\* every field is validated and all errors are collected, in field order
WorkHistoryErrors(title, organization, start_date, end_date) ==
    LET startErrs == DateField("start_date", start_date, FALSE)
        endErrs == DateField("end_date", end_date, TRUE)
        data == IF startErrs = <<>> THEN [start_date |-> DayOf(start_date)]
                ELSE [title |-> "t"]
        rangeErrs ==
            IF endErrs = <<>> /\ validate_end_date(DayOf(end_date), data) # {}
            THEN <<FieldError("end_date", "end_before_start")>> ELSE <<>>
    IN  StrMin2("title", title) \o StrMin2("organization", organization)
          \o startErrs \o endErrs \o rangeErrs

\* validate_work_history_entry(role_data); location, ai_bullets and impact
\* are absent from role_data
validate_work_history_entry(role_data) ==
    LET job_title == GetOr(role_data.job_title, FStr(<<>>))
        employer == GetOr(role_data.employer, FStr(<<>>))
        start_date == Get(role_data.start_date)
        end_date == Get(role_data.end_date)
        required ==
            (IF Strip(job_title.text) = <<>>
             THEN <<FieldError("title", "required")>> ELSE <<>>)
            \o (IF Strip(employer.text) = <<>>
                THEN <<FieldError("organization", "required")>> ELSE <<>>)
            \o (IF ~Truthy(start_date)
                THEN <<FieldError("start_date", "required")>> ELSE <<>>)
    IN  IF job_title.kind # "str" \/ employer.kind # "str"
        THEN Raised("AttributeError")
        ELSE IF required # <<>> THEN Returned(required)
        ELSE Returned(WorkHistoryErrors(job_title, employer, start_date,
                                        end_date))

\* int(text): optional sign and digits, surrounding blanks ignored
ParseInt(text) ==
    LET t == Strip(text)
        neg == t # <<>> /\ Head(t) = "-"
        body == IF neg THEN Tail(t) ELSE t
        wellFormed == body # <<>> /\ \A i \in 1..Len(body) : IsDigit(body[i])
    IN  IF wellFormed
        THEN [ok |-> TRUE, val |-> IF neg THEN 0 - DecVal(body) ELSE DecVal(body)]
        ELSE [ok |-> FALSE, val |-> 0]

NoYear == -1000000
MinGradYear == 1950
MaxGradYear == 2050

\* convert_year of validate_education_entry
convert_year(year_value) ==
    IF year_value.kind = "none" THEN NoYear
    ELSE IF year_value.kind = "int" THEN year_value.num
    ELSE IF Strip(year_value.text) = <<>> THEN NoYear
    ELSE IF ParseInt(year_value.text).ok THEN ParseInt(year_value.text).val
    ELSE NoYear

\* the argument of convert_gpa for a form value
GpaArg(v) ==
    IF v.kind = "str" THEN [kind |-> "str", num |-> 0, text |-> v.text]
    ELSE IF v.kind = "int" THEN [kind |-> "num", num |-> v.num, text |-> <<>>]
    ELSE [kind |-> "none", num |-> 0, text |-> <<>>]

\* Education(institution=..., degree=..., graduation_year=..., gpa=...)
EducationErrors(institution, degree, graduation_year, gpa) ==
    StrMin2("institution", institution) \o StrMin2("degree", degree)
      \o (IF graduation_year # NoYear
             /\ (graduation_year < MinGradYear \/ graduation_year > MaxGradYear)
          THEN <<FieldError("graduation_year", "out_of_range")>> ELSE <<>>)
      \o (IF ~EducationGpa(gpa).ok
          THEN <<FieldError("gpa", "out_of_range")>> ELSE <<>>)

\* validate_education_entry(edu_data)
validate_education_entry(edu_data) ==
    LET institution == GetOr(edu_data.institution, FStr(<<>>))
        degree == GetOr(edu_data.degree, FStr(<<>>))
        required ==
            (IF Strip(institution.text) = <<>>
             THEN <<FieldError("institution", "required")>> ELSE <<>>)
            \o (IF Strip(degree.text) = <<>>
                THEN <<FieldError("degree", "required")>> ELSE <<>>)
    IN  IF institution.kind # "str" \/ degree.kind # "str"
        THEN Raised("AttributeError")
        ELSE IF required # <<>> THEN Returned(required)
        ELSE Returned(EducationErrors(institution, degree,
                                      convert_year(Get(edu_data.year)),
                                      convert_gpa(GpaArg(Get(edu_data.gpa)))))

\* EmailStr for the values drawn: one '@' with text on both sides and a dot
\* inside the domain
EmailOk(t) ==
    LET ats == {i \in 1..Len(t) : t[i] = "@"}
        at == CHOOSE i \in ats : TRUE
    IN  /\ Cardinality(ats) = 1
        /\ at > 1
        /\ \E i \in (at + 2)..(Len(t) - 1) : t[i] = "."

\* a str field without a minimum length (city, state)
StrField(f, v) ==
    IF v.kind # "str" THEN <<FieldError(f, "string_type")>> ELSE <<>>

SecurityClearances ==
    { <<"N", "o", "n", "e">>,
      <<"P", "u", "b", "l", "i", "c", " ", "T", "r", "u", "s", "t">>,
      <<"S", "e", "c", "r", "e", "t">>,
      <<"T", "S">>,
      <<"T", "S", "/", "S", "C", "I">> }

\* clean_url of validate_contact_form: the value is stripped, a blank one
\* becomes None; anything but a string has no strip()
clean_url(v) ==
    IF ~Truthy(v) \/ Strip(v.text) = <<>> THEN NoUrl
    ELSE UrlText(Strip(v.text))

\* Contact(full_name=..., email=..., phone=..., city=..., state=...,
\*         linkedin=..., portfolio=..., security_clearance=...)
ContactErrors(full_name, email, phone, city, state, linkedin, portfolio, security_clearance) ==
    StrMin2("full_name", full_name)
      \o (IF email.kind = "str" /\ EmailOk(email.text) THEN <<>>
          ELSE <<FieldError("email", "value_error")>>)
      \o (IF phone.kind # "str" THEN <<FieldError("phone", "string_type")>>
          ELSE IF ~ContactPhone(phone.text).ok
          THEN <<FieldError("phone", ContactPhone(phone.text).err)>>
          ELSE <<>>)
      \o StrField("city", city) \o StrField("state", state)
      \o (IF ~validate_urls(linkedin).ok
          THEN <<FieldError("linkedin", "value_error")>> ELSE <<>>)
      \o (IF ~validate_urls(portfolio).ok
          THEN <<FieldError("portfolio", "value_error")>> ELSE <<>>)
      \o (IF security_clearance.kind = "str"
             /\ security_clearance.text \in SecurityClearances THEN <<>>
          ELSE <<FieldError("security_clearance", "string_pattern_mismatch")>>)

\* validate_contact_form() over st.session_state.profile_data
validate_contact_form(profile_data) ==
    LET linkedin == Get(profile_data.linkedin)
        portfolio == Get(profile_data.portfolio)
        years == profile_data.years_of_service
        years_service ==
            IF years.kind = "str" THEN Strip(years.text)
            ELSE IF years.kind = "int" /\ years.num # 0
            THEN IntToStr(years.num) ELSE <<>>
    IN  IF (Truthy(linkedin) /\ linkedin.kind # "str")
           \/ (Truthy(portfolio) /\ portfolio.kind # "str")
        THEN Raised("AttributeError")
        ELSE Returned(
               ContactErrors(GetOr(profile_data.full_name, FStr(<<>>)),
                             GetOr(profile_data.email, FStr(<<>>)),
                             GetOr(profile_data.phone, FStr(<<>>)),
                             GetOr(profile_data.city, FStr(<<>>)),
                             GetOr(profile_data.state, FStr(<<>>)),
                             clean_url(linkedin), clean_url(portfolio),
                             GetOr(profile_data.security_clearance,
                                   FStr(<<"N", "o", "n", "e">>)))
               \o (IF years_service = <<>>
                   THEN <<FieldError("years_of_service", "required")>>
                   ELSE <<>>))

\* form values drawn for the fields
FormTexts ==
    {FMissing, FNone, FInt(7), FStr(<<>>), FStr(<<" ">>), FStr(<<"Q">>),
     FStr(<<"Q", "A">>)}
FormDates ==
    {FMissing, FNone, FStr(<<>>), FStr(<<"p", "r", "e", "s", "e", "n", "t">>)}
      \cup {FDate(d) : d \in Dates}
FormYears ==
    {FMissing, FNone, FStr(<<>>), FStr(<<"x">>), FStr(<<"1", "9", "4", "9">>),
     FStr(<<"2", "0", "0", "0">>), FInt(0), FInt(2000)}
FormGpas ==
    {FMissing, FStr(<<"3", ".", "5">>), FStr(<<"-", "1">>), FStr(<<"a">>), FInt(85)}

WorkForms ==
    [job_title : FormTexts, employer : FormTexts, start_date : FormDates,
     end_date : FormDates]
EducationForms ==
    [institution : FormTexts, degree : FormTexts, year : FormYears,
     gpa : FormGpas]
ContactForms ==
    [full_name : {FMissing, FNone, FStr(<<"J", "o">>)},
     email : {FMissing, FNone, FStr(<<"a", "@", "b", ".", "c", "o">>)},
     phone : {FMissing, FNone, FStr(<<"9", "6", "3", "2", "5", "8", "7", "4", "1", "0">>)},
     city : {FMissing, FNone},
     state : {FMissing, FStr(<<"T", "X">>)},
     linkedin : {FMissing, FInt(0), FInt(7),
                 FStr(<<"l", "i", "n", "k", "e", "d", "i", "n", ".", "c", "o", "m",
                   "/", "i", "n", "/", "j", "d">>),
                 FStr(<<"l", "i", "n", "k", "e", "d", "i", "n", ".", "o", "r", "g", "/", "j", "d">>)},
     portfolio : {FMissing, FInt(7),
                  FStr(<<"e", "x", "a", "m", "p", "l", "e", ".", "c", "o", "m", "/", "j", "d">>)},
     security_clearance : {FMissing, FStr(<<"s", "e", "c", "r", "e", "t">>)},
     years_of_service : {FMissing, FNone, FStr(<<" ">>), FStr(<<"5">>),
                         FInt(0), FInt(5)}]

FormInit ==
    /\ formIn \in [form : {"work"}, data : WorkForms]
                    \cup [form : {"education"}, data : EducationForms]
                    \cup [form : {"contact"}, data : ContactForms]
    /\ formOut = NoOutcome

FormIdle ==
    /\ formIn = [form |-> "none", data |-> <<>>]
    /\ formOut = NoOutcome

\* is_valid, errors = validate_contact_form()
ValidateContactForm ==
    /\ formIn.form = "contact" /\ ~formOut.done
    /\ formOut' = validate_contact_form(formIn.data)
    /\ UNCHANGED formIn
    /\ UNCHANGED <<phoneVars, workVars, gpaVars, catalogVars, genVars,
                   nameVars, urlVars,
                 roleVars,
                 profileVars,
                 skillVars,
                 headerVars,
                 volunteerVars,
                 tripVars>>

\* is_valid, errors = validate_work_history_entry(role)
ValidateWorkHistoryEntry ==
    /\ formIn.form = "work" /\ ~formOut.done
    /\ formOut' = validate_work_history_entry(formIn.data)
    /\ UNCHANGED formIn
    /\ UNCHANGED <<phoneVars, workVars, gpaVars, catalogVars, genVars,
                   nameVars, urlVars,
                 roleVars,
                 profileVars,
                 skillVars,
                 headerVars,
                 volunteerVars,
                 tripVars>>

\* is_valid, errors = validate_education_entry(edu)
ValidateEducationEntry ==
    /\ formIn.form = "education" /\ ~formOut.done
    /\ formOut' = validate_education_entry(formIn.data)
    /\ UNCHANGED formIn
    /\ UNCHANGED <<phoneVars, workVars, gpaVars, catalogVars, genVars,
                   nameVars, urlVars,
                 roleVars,
                 profileVars,
                 skillVars,
                 headerVars,
                 volunteerVars,
                 tripVars>>

(***************************************************************************)
(* Work entries built from the session state  (src/app.py                  *)
(* create_resume_profile_from_session)                                     *)
(***************************************************************************)
\* a calendar date is the number yyyymmdd, so that < is "earlier than"
MakeDate(y, m, d) == y * 10000 + m * 100 + d
YearOf(date) == date \div 10000

\* datetime(year, month, 1) raises ValueError for a year outside 1..9999 or
\* a month outside 1..12
ValidYearMonth(y, m) == y \in 1..9999 /\ m \in 1..12

PresentTokens == { <<"p", "r", "e", "s", "e", "n", "t">>, <<"c", "u", "r", "r", "e", "n", "t">> }

\* parse_date of create_resume_profile_from_session; today is what
\* datetime.now() gives
parse_date(date_str, today) ==
    LET t == Strip(date_str.text)
        parts == IF Contains(<<"/">>, t) THEN SplitOn(t, "/")
                 ELSE SplitOn(t, "-")
        month == ParseInt(parts[1])
        year == ParseInt(parts[2])
        sentinel == MakeDate(YearOf(today), 1, 1)
    IN  IF ~Truthy(date_str) THEN NoDate
        ELSE IF date_str.kind = "date" THEN date_str.num
        ELSE IF date_str.kind # "str" THEN NoDate
        ELSE IF Lower(t) \in PresentTokens \cup {<<>>} THEN NoDate
        ELSE IF Contains(<<"/">>, t) \/ Contains(<<"-">>, t)
        THEN IF Len(parts) = 2 /\ month.ok /\ year.ok
                /\ ValidYearMonth(year.val, month.val)
             THEN MakeDate(year.val, month.val, 1)
             ELSE sentinel
        ELSE IF ParseInt(t).ok /\ ValidYearMonth(ParseInt(t).val, 1)
        THEN MakeDate(ParseInt(t).val, 1, 1)
        ELSE sentinel

\* is_current of the work history loop
is_current(end_value) ==
    LET end_date_str == IF Truthy(end_value) THEN end_value ELSE FStr(<<>>)
    IN  end_date_str.kind = "str"
          /\ Lower(Strip(end_date_str.text)) \in PresentTokens

\* datetime.now().replace(year=2020, month=1, day=1).date()
DefaultStart == MakeDate(2020, 1, 1)

NoRole ==
    [done |-> FALSE, built |-> FALSE, error |-> "none", start_date |-> NoDate,
     end_date |-> NoDate, current |-> FALSE]

\* the body of the work history loop for one role: the dates are parsed and
\* the WorkHistory is built; a ValidationError leaves the function
build_work_entry(role, today) ==
    LET start_date == parse_date(GetOr(role.start_date, FStr(<<>>)), today)
        end_date == parse_date(GetOr(role.end_date, FStr(<<>>)), today)
        start == IF start_date # NoDate THEN start_date ELSE DefaultStart
        errs == WorkHistoryErrors(role.job_title, role.employer, FDate(start),
                                  IF end_date = NoDate THEN FNone
                                  ELSE FDate(end_date))
    IN  IF errs # <<>>
        THEN [NoRole EXCEPT !.done = TRUE, !.error = "ValidationError"]
        ELSE [done |-> TRUE, built |-> TRUE, error |-> "none",
              start_date |-> start, end_date |-> end_date,
              current |-> is_current(Get(role.end_date))]

DateTexts ==
    { <<>>,
      <<" ">>,
      <<"p", "r", "e", "s", "e", "n", "t">>,
      <<"P", "r", "e", "s", "e", "n", "t", " ">>,
      <<"C", "U", "R", "R", "E", "N", "T">>,
      <<"0", "5", "/", "2", "0", "2", "0">>,
      <<"5", "/", "2", "0", "2", "1">>,
      <<"0", "5", "-", "2", "0", "2", "0">>,
      <<"1", "3", "/", "2", "0", "2", "0">>,
      <<"2", "0", "1", "9">>,
      <<"2", "0", "2", "0", "-", "0", "5", "-", "1", "7">>,
      <<"2", "0", "2", "0", "-", "0", "5">>,
      <<"M", "a", "y", " ", "2", "0", "2", "0">>,
      <<"0", "5", "/", "2", "0", "2", "0", "/", "0", "1">>,
      <<"n", "/", "a">> }

RoleDates ==
    {FMissing, FNone, FDate(MakeDate(2020, 5, 17))}
      \cup {FStr(t) : t \in DateTexts}

Todays == {MakeDate(2026, 11, 5), MakeDate(2027, 1, 1)}

RoleInit ==
    /\ roleIn \in [job_title : {FStr(<<"Q", "A">>)},
                   employer : {FStr(<<"Q", "A">>)}, start_date : RoleDates,
                   end_date : RoleDates, today : Todays]
    /\ roleOut = NoRole

RoleIdle ==
    /\ roleIn = [job_title |-> FMissing, employer |-> FMissing,
                 start_date |-> FMissing, end_date |-> FMissing,
                 today |-> MakeDate(2026, 11, 5)]
    /\ roleOut = NoRole

\* create_resume_profile_from_session, one pass of the work history loop
BuildWorkEntry ==
    /\ ~roleOut.done
    /\ roleOut' = build_work_entry(roleIn, roleIn.today)
    /\ UNCHANGED roleIn
    /\ UNCHANGED <<phoneVars, workVars, gpaVars, catalogVars, genVars,
                   nameVars, urlVars, formVars,
                 profileVars,
                 skillVars,
                 headerVars,
                 volunteerVars,
                 tripVars>>

(***************************************************************************)
(* ResumeProfile.target_roles  (src/models.py)                             *)
(***************************************************************************)
\* longest list of target roles drawn
MaxRoles == 3

RoleTitles == { <<>>, <<"P", "M">>, <<"Q", "A", " ", "L", "e", "a", "d">> }

RECURSIVE ListsUpTo(_, _)
ListsUpTo(items, n) ==
    IF n = 0 THEN {<<>>}
    ELSE LET shorter == ListsUpTo(items, n - 1)
         IN  shorter \cup {Append(l, x) : l \in shorter, x \in items}

RoleLists == ListsUpTo(RoleTitles, MaxRoles)

TargetRolesMinLength == 1

\* Field(..., min_length=1) on a List[str], applied to a value that is given
target_roles_field(v) ==
    IF Len(v) < TargetRolesMinLength THEN {"too_short"} ELSE {}

NoProfileObject == [exists |-> FALSE, target_roles |-> <<>>]
NoProfileOp == [op |-> "none", given |-> FALSE, roles |-> <<>>, errors |-> {}]

ProfileInit ==
    /\ rpProfile = NoProfileObject
    /\ rpOp = NoProfileOp

ProfileIdle ==
    /\ rpProfile = NoProfileObject
    /\ rpOp = NoProfileOp

\* ResumeProfile(contact=..., target_roles=roles) when given, and
\* ResumeProfile(contact=...) otherwise: the default comes from
\* default_factory=list and a default is not validated
ConstructProfile(given, roles) ==
    LET value == IF given THEN roles ELSE <<>>
        errs == IF given THEN target_roles_field(roles) ELSE {}
    IN  /\ ~rpProfile.exists
        /\ given \/ roles = <<>>
        /\ rpOp' = [op |-> "construct", given |-> given, roles |-> value,
                    errors |-> errs]
        /\ rpProfile' = IF errs = {}
                        THEN [exists |-> TRUE, target_roles |-> value]
                        ELSE NoProfileObject
        /\ UNCHANGED <<phoneVars, workVars, gpaVars, catalogVars, genVars,
                       nameVars, urlVars, formVars, roleVars,
                 skillVars,
                 headerVars,
                 volunteerVars,
                 tripVars>>

\* profile.target_roles = roles under validate_assignment
AssignTargetRoles(roles) ==
    LET errs == target_roles_field(roles)
    IN  /\ rpProfile.exists
        /\ rpOp' = [op |-> "assign", given |-> TRUE, roles |-> roles,
                    errors |-> errs]
        /\ rpProfile' = IF errs = {}
                        THEN [rpProfile EXCEPT !.target_roles = roles]
                        ELSE rpProfile
        /\ UNCHANGED <<phoneVars, workVars, gpaVars, catalogVars, genVars,
                       nameVars, urlVars, formVars, roleVars,
                 skillVars,
                 headerVars,
                 volunteerVars,
                 tripVars>>

(***************************************************************************)
(* Skills line  (src/services/resume_generator.py _add_skills_section)     *)
(***************************************************************************)
\* longest MOS-translated and core skill lists drawn as input
MaxSkills == 2

SkillNames == {<<"S", "Q", "L">>, <<"L", "o", "g", "i", "s", "t", "i", "c", "s">>}

SkillLists == ListsUpTo(SkillNames, MaxSkills)
ShortSkillLists == ListsUpTo(SkillNames, 1)

\* for skill in source: if skill not in skills_list: skills_list.append(skill)
RECURSIVE AppendNew(_, _)
AppendNew(skills_list, source) ==
    IF source = <<>> THEN skills_list
    ELSE AppendNew(IF \E i \in 1..Len(skills_list) :
                          skills_list[i] = Head(source)
                   THEN skills_list
                   ELSE Append(skills_list, Head(source)),
                   Tail(source))

\* ', '.join(skills_list)
RECURSIVE JoinComma(_)
JoinComma(skills_list) ==
    IF skills_list = <<>> THEN <<>>
    ELSE IF Len(skills_list) = 1 THEN Head(skills_list)
    ELSE Head(skills_list) \o <<",", " ">> \o JoinComma(Tail(skills_list))

\* the list _add_skills_section builds: the MOS-translated skills are taken
\* whole by extend, every later source goes in skill by skill
MergedSkills(profile) ==
    LET translated == profile.mos_translated_skills
        core == AppendNew(translated, profile.core_skills)
        tools == AppendNew(core, profile.tools_technologies)
        keywords == AppendNew(tools, profile.target_keywords)
    IN  IF profile.mos THEN AppendNew(keywords, profile.civilian_skills)
        ELSE keywords

NoSkillsLine == [done |-> FALSE, shown |-> FALSE, text |-> <<>>]

\* _add_skills_section: the SKILLS heading and the line are added only for
\* a non-empty list
_add_skills_section(profile) ==
    LET skills_list == MergedSkills(profile)
    IN  IF skills_list # <<>>
        THEN [done |-> TRUE, shown |-> TRUE, text |-> JoinComma(skills_list)]
        ELSE [done |-> TRUE, shown |-> FALSE, text |-> <<>>]

SkillProfiles ==
    { [mos_translated_skills |-> t, core_skills |-> c,
       tools_technologies |-> o, target_keywords |-> k, mos |-> m,
       civilian_skills |-> v] :
        t \in SkillLists, c \in SkillLists, o \in ShortSkillLists,
        k \in ShortSkillLists,
        m \in BOOLEAN, v \in ShortSkillLists }

SkillsInit ==
    /\ skIn \in {p \in SkillProfiles : ~p.mos => p.civilian_skills = <<>>}
    /\ skOut = NoSkillsLine

SkillsIdle ==
    /\ skIn = [mos_translated_skills |-> <<>>, core_skills |-> <<>>,
               tools_technologies |-> <<>>, target_keywords |-> <<>>,
               mos |-> FALSE, civilian_skills |-> <<>>]
    /\ skOut = NoSkillsLine

AddSkillsSection ==
    /\ ~skOut.done
    /\ skOut' = _add_skills_section(skIn)
    /\ UNCHANGED skIn
    /\ UNCHANGED <<phoneVars, workVars, gpaVars, catalogVars, genVars,
                   nameVars, urlVars, formVars, roleVars, profileVars,
                 headerVars,
                 volunteerVars,
                 tripVars>>

(***************************************************************************)
(* Header  (src/services/resume_generator.py _add_contact_section,         *)
(*          src/services/docx_utils.py add_contact_header)                 *)
(***************************************************************************)
\* None for an optional string
NoText == <<"N", "o", "n", "e", "!">>

\* the truth value of an optional string
Given(v) == v # NoText /\ v # <<>>

\* DocxResumeGenerator._format_location
_format_location(city, state) ==
    IF Given(city) /\ Given(state) THEN city \o <<",", " ">> \o state
    ELSE IF Given(city) THEN city
    ELSE IF Given(state) THEN state
    ELSE <<>>

\* ' | '.join(contact_parts)
RECURSIVE JoinBar(_)
JoinBar(contact_parts) ==
    IF contact_parts = <<>> THEN <<>>
    ELSE IF Len(contact_parts) = 1 THEN Head(contact_parts)
    ELSE Head(contact_parts) \o <<" ", "|", " ">>
             \o JoinBar(Tail(contact_parts))

ClearanceNone == <<"N", "o", "n", "e">>
ClearanceLabel(clearance) == <<"C", "l", "e", "a", "r", "a", "n", "c", "e", ":", " ">> \o clearance

\* add_contact_header: the upper-cased name, and the contact line of
\* location, phone, email, and LinkedIn and clearance when given
add_contact_header(name, email, phone, location, linkedin, clearance) ==
    LET base == <<location, phone, email>>
        withLink == IF Given(linkedin) THEN Append(base, linkedin) ELSE base
        contact_parts ==
            IF Given(clearance) /\ clearance # ClearanceNone
            THEN Append(withLink, ClearanceLabel(clearance))
            ELSE withLink
    IN  [done |-> TRUE, name |-> Upper(name), text |-> JoinBar(contact_parts)]

\* DocxResumeGenerator._add_contact_section
_add_contact_section(contact) ==
    add_contact_header(contact.full_name, contact.email, contact.phone,
                       _format_location(contact.city, contact.state),
                       contact.linkedin,
                       IF contact.security_clearance # ClearanceNone
                       THEN contact.security_clearance ELSE NoText)

\* contacts that pass the validation of Contact: city and state are
\* required strings with only a maximum length
HeaderCities == {<<>>, <<"A", "u", "s", "t", "i", "n">>, <<"F", "o", "r", "t", " ", "H", "o", "o", "d">>}
HeaderStates == {<<>>, <<"T", "X">>, <<"V", "A">>}
HeaderLinks == {NoText, <<"h", "t", "t", "p", "s", ":", "/", "/", "l", "i", "n", "k", "e", "d", "i", "n", ".", "c", "o", "m", "/", "i", "n", "/", "j", "d">>}
HeaderClearances == {ClearanceNone, <<"P", "u", "b", "l", "i", "c", " ", "T", "r", "u", "s", "t">>, <<"S", "e", "c", "r", "e", "t">>, <<"T", "S">>, <<"T", "S", "/", "S", "C", "I">>}

HeaderContacts ==
    [full_name : {<<"J", "a", "n", "e", " ", "D", "o", "e">>}, email : {<<"j", "d", "@", "m", "a", "i", "l", ".", "o", "r", "g">>}, phone : {<<"(", "9", "6", "3", ")", " ", "2", "5", "8", "-", "7", "4", "1", "0">>},
     city : HeaderCities, state : HeaderStates, linkedin : HeaderLinks,
     security_clearance : HeaderClearances]

NoHeader == [done |-> FALSE, name |-> <<>>, text |-> <<>>]

HeaderInit ==
    /\ hdrIn \in HeaderContacts
    /\ hdrOut = NoHeader

HeaderIdle ==
    /\ hdrIn = [full_name |-> <<>>, email |-> <<>>, phone |-> <<>>,
                city |-> <<>>, state |-> <<>>, linkedin |-> NoText,
                security_clearance |-> ClearanceNone]
    /\ hdrOut = NoHeader

AddContactSection ==
    /\ ~hdrOut.done
    /\ hdrOut' = _add_contact_section(hdrIn)
    /\ UNCHANGED hdrIn
    /\ UNCHANGED <<phoneVars, workVars, gpaVars, catalogVars, genVars,
                   nameVars, urlVars, formVars, roleVars, profileVars,
                   skillVars,
                 volunteerVars,
                 tripVars>>

(***************************************************************************)
(* Volunteer entries  (src/app.py create_resume_profile_from_session,      *)
(*     src/models.py AdditionalInfo, VolunteerExperience,                  *)
(*     src/services/resume_generator.py _add_additional_sections)          *)
(***************************************************************************)
\* longest volunteer list drawn as input
MaxVolunteer == 2

\* a volunteer entry is a plain string (kind "str", its text) or a
\* structured record (kind "dict") or a VolunteerExperience (kind "object")
VolunteerString(t) ==
    [kind |-> "str", text |-> t, organization |-> <<>>, role |-> <<>>,
     description |-> <<>>, date_range |-> <<>>, location |-> <<>>]

VolunteerTexts == {<<"F", "o", "o", "d", " ", "b", "a", "n", "k">>}
VolunteerOrganizations == {<<>>, <<"U", "S", "O">>}
VolunteerRoles == {<<>>, <<"D", "r", "i", "v", "e", "r">>}
VolunteerDescriptions == {<<>>, <<"D", "r", "o", "v", "e", " ", "v", "a", "n", "s", ".">>}
VolunteerDateRanges == {<<>>, <<"2", "0", "2", "0">>}
VolunteerLocations == {<<>>, <<"T", "X">>}

VolunteerRecords ==
    [kind : {"dict"}, text : {<<>>}, organization : VolunteerOrganizations,
     role : VolunteerRoles, description : VolunteerDescriptions,
     date_range : VolunteerDateRanges, location : VolunteerLocations]

VolunteerInputs ==
    ListsUpTo({VolunteerString(t) : t \in VolunteerTexts}
                  \cup VolunteerRecords, MaxVolunteer)

\* create_resume_profile_from_session: strings are kept, a record is kept
\* when it has an organization, a role or a description
RECURSIVE volunteer_list(_)
volunteer_list(session) ==
    IF session = <<>> THEN <<>>
    ELSE LET vol == Head(session)
             keep == \/ vol.kind = "str"
                     \/ vol.organization # <<>>
                     \/ vol.role # <<>>
                     \/ vol.description # <<>>
         IN  (IF keep THEN <<vol>> ELSE <<>>) \o volunteer_list(Tail(session))

OrganizationMinLength == 2
RoleMinLength == 2
DescriptionMinLength == 10
DateRangeMinLength == 4

\* VolunteerExperience(**vol): the fields that fail their min_length; the
\* location key is no field of the model and is ignored
VolunteerExperienceErrors(vol) ==
    {f \in {"organization", "role", "description", "date_range"} :
        \/ f = "organization" /\ Len(vol.organization) < OrganizationMinLength
        \/ f = "role" /\ Len(vol.role) < RoleMinLength
        \/ f = "description" /\ Len(vol.description) < DescriptionMinLength
        \/ f = "date_range" /\ Len(vol.date_range) < DateRangeMinLength}

VolunteerObject(vol) ==
    [kind |-> "object", text |-> <<>>, organization |-> vol.organization,
     role |-> vol.role, description |-> vol.description,
     date_range |-> vol.date_range, location |-> <<>>]

\* AdditionalInfo.volunteer: Union[List[str], List[VolunteerExperience]];
\* the list is valid as a list of strings or as a list of records that each
\* validate as VolunteerExperience, and as nothing else
volunteer_field(list) ==
    IF \A i \in 1..Len(list) : list[i].kind = "str"
    THEN [ok |-> TRUE, value |-> list]
    ELSE IF \A i \in 1..Len(list) :
                /\ list[i].kind = "dict"
                /\ VolunteerExperienceErrors(list[i]) = {}
    THEN [ok |-> TRUE,
          value |-> [i \in 1..Len(list) |-> VolunteerObject(list[i])]]
    ELSE [ok |-> FALSE, value |-> <<>>]

\* _add_additional_sections, the volunteer part: one rendered entry for
\* each element of the list
RenderVolunteer(list) ==
    [i \in 1..Len(list) |->
        IF list[i].kind = "str"
        THEN [bullet |-> TRUE, text |-> list[i].text, role |-> <<>>,
              organization |-> <<>>, location |-> <<>>, date_range |-> <<>>,
              description |-> <<>>]
        ELSE [bullet |-> FALSE, text |-> <<>>, role |-> list[i].role,
              organization |-> list[i].organization,
              location |-> list[i].location,
              date_range |-> list[i].date_range,
              description |-> list[i].description]]

VolunteerInit ==
    /\ volIn \in VolunteerInputs
    /\ volPc = "idle"
    /\ volInfo = <<>>
    /\ volDoc = <<>>

VolunteerIdle ==
    /\ volIn = <<>>
    /\ volPc = "idle"
    /\ volInfo = <<>>
    /\ volDoc = <<>>

\* create_resume_profile_from_session: AdditionalInfo(volunteer=...) is
\* built for a non-empty list, outside the try of the profile
BuildAdditionalInfo ==
    LET list == volunteer_list(volIn)
        field == volunteer_field(list)
    IN  /\ volPc = "idle"
        /\ volPc' = IF list = <<>> THEN "built_none"
                    ELSE IF field.ok THEN "built" ELSE "raised"
        /\ volInfo' = IF list # <<>> /\ field.ok THEN field.value ELSE <<>>
        /\ UNCHANGED <<volIn, volDoc>>
        /\ UNCHANGED <<phoneVars, workVars, gpaVars, catalogVars, genVars,
                       nameVars, urlVars, formVars, roleVars, profileVars,
                       skillVars, headerVars,
                 tripVars>>

\* generate: _add_additional_sections on the profile that was built
AddAdditionalSections ==
    /\ volPc \in {"built", "built_none"}
    /\ volPc' = "rendered"
    /\ volDoc' = RenderVolunteer(volInfo)
    /\ UNCHANGED <<volIn, volInfo>>
    /\ UNCHANGED <<phoneVars, workVars, gpaVars, catalogVars, genVars,
                   nameVars, urlVars, formVars, roleVars, profileVars,
                   skillVars, headerVars,
                 tripVars>>

(***************************************************************************)
(* Profile JSON  (src/components/step4_new.py render_step_4,               *)
(*     src/components/landing_page.py load_profile_from_json_data)         *)
(***************************************************************************)
\* longest work history drawn as input
MaxJobs == 2

\* str(n).zfill(width)
RECURSIVE ZeroFill(_, _)
ZeroFill(text, width) ==
    IF Len(text) >= width THEN text ELSE ZeroFill(<<"0">> \o text, width)

\* date.isoformat(): YYYY-MM-DD
isoformat(d) ==
    ZeroFill(IntToStr(d \div 10000), 4) \o <<"-">>
        \o ZeroFill(IntToStr((d \div 100) % 100), 2) \o <<"-">>
        \o ZeroFill(IntToStr(d % 100), 2)

\* the days of month m of year y
DaysInMonth(y, m) ==
    IF m \in {4, 6, 9, 11} THEN 30
    ELSE IF m # 2 THEN 31
    ELSE IF y % 4 = 0 /\ (y % 100 # 0 \/ y % 400 = 0) THEN 29
    ELSE 28

\* the texts YYYY-MM-DD that datetime.fromisoformat reads as a calendar day
IsIsoDay(t) ==
    /\ Len(t) = 10
    /\ t[5] = "-" /\ t[8] = "-"
    /\ \A i \in {1, 2, 3, 4, 6, 7, 9, 10} : IsDigit(t[i])
    /\ DecVal(SubSeq(t, 1, 4)) >= 1
    /\ DecVal(SubSeq(t, 6, 7)) \in 1..12
    /\ DecVal(SubSeq(t, 9, 10))
           \in 1..DaysInMonth(DecVal(SubSeq(t, 1, 4)), DecVal(SubSeq(t, 6, 7)))

\* datetime.fromisoformat(t).date()
fromisoformat(t) ==
    MakeDate(DecVal(SubSeq(t, 1, 4)), DecVal(SubSeq(t, 6, 7)),
             DecVal(SubSeq(t, 9, 10)))

\* DateTimeEncoder.default: a date is written as its isoformat(), every
\* other value as it is
JsonValue(v) == IF v.kind = "date" THEN FStr(isoformat(v.num)) ELSE v

JsonObject(obj) == [k \in DOMAIN obj |-> JsonValue(obj[k])]

JsonList(list) == [i \in 1..Len(list) |-> JsonObject(list[i])]

\* render_step_4: json_data as written by json.dumps and read back by
\* json.load
json_data(session) ==
    [profile_data |-> JsonObject(session.profile_data),
     work_history |-> JsonList(session.work_history),
     education |-> JsonList(session.education)]

\* obj.get(key, default)
Field(obj, key, default) == IF key \in DOMAIN obj THEN obj[key] ELSE default

\* the start_date / end_date of an experience entry
ImportedDate(raw) ==
    IF ~Truthy(raw) THEN FNone
    ELSE IF raw.kind = "str" /\ IsIsoDay(raw.text)
    THEN FDate(fromisoformat(raw.text))
    ELSE raw

\* the year of an education entry
ImportedYear(edu) ==
    LET graduation_year == Field(edu, "graduation_year", FNone)
        graduation_date == Field(edu, "graduation_date", FNone)
    IN  IF Truthy(graduation_year) THEN graduation_year
        ELSE IF Truthy(graduation_date) /\ graduation_date.kind = "str"
                /\ IsIsoDay(graduation_date.text)
        THEN FInt(YearOf(fromisoformat(graduation_date.text)))
        ELSE FNone

\* load_profile_from_json_data: contact, experience and education of the
\* JSON data become profile_data, work_history and education
load_profile_from_json_data(data) ==
    LET contact == Field(data, "contact", <<>>)
        experience == Field(data, "experience", <<>>)
        education == Field(data, "education", <<>>)
        Text(obj, key) == Field(obj, key, FStr(<<>>))
    IN  [profile_data |->
            [full_name |-> Text(contact, "full_name"),
             email |-> Text(contact, "email"),
             phone |-> Text(contact, "phone"),
             city |-> Text(contact, "city"),
             state |-> Text(contact, "state")],
         work_history |->
            [i \in 1..Len(experience) |->
                [job_title |-> Text(experience[i], "title"),
                 employer |-> Text(experience[i], "organization"),
                 start_date |->
                     ImportedDate(Field(experience[i], "start_date", FNone)),
                 end_date |->
                     ImportedDate(Field(experience[i], "end_date", FNone))]],
         education |->
            [i \in 1..Len(education) |->
                [institution |-> Text(education[i], "institution"),
                 degree |-> Text(education[i], "degree"),
                 year |-> ImportedYear(education[i])]]]

TripNames == {FStr(<<"J", "a", "n", "e", " ", "D", "o", "e">>), FStr(<<"A", "l", " ", "R", "o", "e">>)}
TripCities == {FStr(<<>>), FStr(<<"A", "u", "s", "t", "i", "n">>)}
TripTitles == {FStr(<<"A", "n", "a", "l", "y", "s", "t">>), FStr(<<"M", "e", "d", "i", "c">>)}
TripStarts == {FDate(MakeDate(2019, 12, 1)), FDate(MakeDate(2020, 1, 15))}
TripEnds == {FNone, FDate(MakeDate(2021, 6, 28))}
TripYears == {FNone, FInt(2015)}

TripJobs ==
    [job_title : TripTitles, employer : {FStr(<<"A", "c", "m", "e">>)}, start_date : TripStarts,
     end_date : TripEnds]

TripSchools == [institution : {FStr(<<"M", "I", "T">>)}, degree : {FStr(<<"B", "S">>)}, year : TripYears]

TripSessions ==
    [profile_data :
        [full_name : TripNames, email : {FStr(<<"j", "d", "@", "m", "a", "i", "l", ".", "o", "r", "g">>)}, phone : {FStr(<<"(", "9", "6", "3", ")", " ", "2", "5", "8", "-", "7", "4", "1", "0">>)},
         city : TripCities, state : {FStr(<<"T", "X">>)}],
     work_history : ListsUpTo(TripJobs, MaxJobs),
     education : ListsUpTo(TripSchools, 1)]

NoSession == [profile_data |-> <<>>, work_history |-> <<>>, education |-> <<>>]

TripInit ==
    /\ rtSession \in TripSessions
    /\ rtPc = "editing"
    /\ rtJson = <<>>
    /\ rtLoaded = NoSession

TripIdle ==
    /\ rtSession = NoSession
    /\ rtPc = "editing"
    /\ rtJson = <<>>
    /\ rtLoaded = NoSession

\* Download Profile JSON of render_step_4
DownloadProfileJson ==
    /\ rtPc = "editing"
    /\ rtJson' = json_data(rtSession)
    /\ rtPc' = "downloaded"
    /\ UNCHANGED <<rtSession, rtLoaded>>
    /\ UNCHANGED <<phoneVars, workVars, gpaVars, catalogVars, genVars,
                   nameVars, urlVars, formVars, roleVars, profileVars,
                   skillVars, headerVars, volunteerVars>>

\* render_landing_page: the uploaded file is read with json.load and given
\* to load_profile_from_json_data
UploadProfileJson ==
    /\ rtPc = "downloaded"
    /\ rtLoaded' = load_profile_from_json_data(rtJson)
    /\ rtPc' = "imported"
    /\ UNCHANGED <<rtSession, rtJson>>
    /\ UNCHANGED <<phoneVars, workVars, gpaVars, catalogVars, genVars,
                   nameVars, urlVars, formVars, roleVars, profileVars,
                   skillVars, headerVars, volunteerVars>>

(***************************************************************************)
(* Specifications                                                          *)
(***************************************************************************)
InitPhone == PhoneInit /\ WorkInit /\ GpaIdle /\ CatalogIdle /\ GenIdle /\ NameIdle /\ UrlIdle /\ FormIdle /\ RoleIdle /\ ProfileIdle /\ SkillsIdle /\ HeaderIdle /\ VolunteerIdle /\ TripIdle
NextPhone ==
    \/ ValidatePhone
    \/ NormalizeAgain
    \/ FormValidatePhone
SpecPhone == InitPhone /\ [][NextPhone]_vars

InitWork == PhoneIdle /\ WorkInit /\ GpaIdle /\ CatalogIdle /\ GenIdle /\ NameIdle /\ UrlIdle /\ FormIdle /\ RoleIdle /\ ProfileIdle /\ SkillsIdle /\ HeaderIdle /\ VolunteerIdle /\ TripIdle
NextWork ==
    \/ \E s \in Dates \cup {NoDate}, e \in Dates \cup {NoDate}, c \in BOOLEAN :
          Construct(s, e, c)
    \/ \E s \in Dates \cup {NoDate} : AssignStart(s)
    \/ \E e \in Dates \cup {NoDate} : AssignEnd(e)
    \/ RenderDateRange
SpecWork == InitWork /\ [][NextWork]_vars

InitGpa == PhoneIdle /\ WorkInit /\ GpaInit /\ CatalogIdle /\ GenIdle /\ NameIdle /\ UrlIdle /\ FormIdle /\ RoleIdle /\ ProfileIdle /\ SkillsIdle /\ HeaderIdle /\ VolunteerIdle /\ TripIdle
NextGpa == BuildEducation
SpecGpa == InitGpa /\ [][NextGpa]_vars

InitCatalog == PhoneIdle /\ WorkInit /\ GpaIdle /\ CatalogInit /\ GenIdle /\ NameIdle /\ UrlIdle /\ FormIdle /\ RoleIdle /\ ProfileIdle /\ SkillsIdle /\ HeaderIdle /\ VolunteerIdle /\ TripIdle
NextCatalog ==
    \/ Load
    \/ \E q \in Queries, limit \in 0..MaxLimit : Search(q, limit)
    \/ \E code \in LookupKeys : GetMos(code)
SpecCatalog == InitCatalog /\ [][NextCatalog]_vars

InitGen == PhoneIdle /\ WorkInit /\ GpaIdle /\ CatalogIdle /\ GenInit /\ NameIdle /\ UrlIdle /\ FormIdle /\ RoleIdle /\ ProfileIdle /\ SkillsIdle /\ HeaderIdle /\ VolunteerIdle /\ TripIdle
NextGen ==
    \/ /\ genPc = "idle"
       /\ \E profile \in Profiles, custom \in BOOLEAN, now \in 0..MaxClock :
              GenerateResume(profile, custom, now)
    \/ Layout
    \/ LayoutFails
    \/ SaveOpens
    \/ SaveOpenFails
    \/ SaveCompletes
    \/ SaveWriteFails
SpecGen == InitGen /\ [][NextGen]_vars



InitName == PhoneIdle /\ WorkInit /\ GpaIdle /\ CatalogIdle /\ GenIdle /\ NameInit /\ UrlIdle /\ FormIdle /\ RoleIdle /\ ProfileIdle /\ SkillsIdle /\ HeaderIdle /\ VolunteerIdle /\ TripIdle
NextName ==
    \/ Tick
    \/ \E i \in CallIds, name \in Names : ResolvePath(i, name)
    \/ \E i \in CallIds : SavePath(i)
SpecName == InitName /\ [][NextName]_vars

InitUrl == PhoneIdle /\ WorkInit /\ GpaIdle /\ CatalogIdle /\ GenIdle /\ NameIdle /\ UrlInit /\ FormIdle /\ RoleIdle /\ ProfileIdle /\ SkillsIdle /\ HeaderIdle /\ VolunteerIdle /\ TripIdle
NextUrl == ValidateUrls
SpecUrl == InitUrl /\ [][NextUrl]_vars

InitForm == PhoneIdle /\ WorkInit /\ GpaIdle /\ CatalogIdle /\ GenIdle /\ NameIdle /\ UrlIdle /\ FormInit /\ RoleIdle /\ ProfileIdle /\ SkillsIdle /\ HeaderIdle /\ VolunteerIdle /\ TripIdle
NextForm ==
    \/ ValidateContactForm
    \/ ValidateWorkHistoryEntry
    \/ ValidateEducationEntry
SpecForm == InitForm /\ [][NextForm]_vars

InitRole == PhoneIdle /\ WorkInit /\ GpaIdle /\ CatalogIdle /\ GenIdle /\ NameIdle /\ UrlIdle /\ FormIdle /\ RoleInit /\ ProfileIdle /\ SkillsIdle /\ HeaderIdle /\ VolunteerIdle /\ TripIdle
NextRole == BuildWorkEntry
SpecRole == InitRole /\ [][NextRole]_vars

InitProfile == PhoneIdle /\ WorkInit /\ GpaIdle /\ CatalogIdle /\ GenIdle /\ NameIdle /\ UrlIdle /\ FormIdle /\ RoleIdle /\ ProfileInit /\ SkillsIdle /\ HeaderIdle /\ VolunteerIdle /\ TripIdle
NextProfile ==
    \/ \E given \in BOOLEAN, roles \in RoleLists :
          ConstructProfile(given, roles)
    \/ \E roles \in RoleLists : AssignTargetRoles(roles)
SpecProfile == InitProfile /\ [][NextProfile]_vars

InitSkills == PhoneIdle /\ WorkInit /\ GpaIdle /\ CatalogIdle /\ GenIdle /\ NameIdle /\ UrlIdle /\ FormIdle /\ RoleIdle /\ ProfileIdle /\ SkillsInit /\ HeaderIdle /\ VolunteerIdle /\ TripIdle
NextSkills == AddSkillsSection
SpecSkills == InitSkills /\ [][NextSkills]_vars

InitHeader == PhoneIdle /\ WorkInit /\ GpaIdle /\ CatalogIdle /\ GenIdle /\ NameIdle /\ UrlIdle /\ FormIdle /\ RoleIdle /\ ProfileIdle /\ SkillsIdle /\ HeaderInit /\ VolunteerIdle /\ TripIdle
NextHeader == AddContactSection
SpecHeader == InitHeader /\ [][NextHeader]_vars

InitVolunteer == PhoneIdle /\ WorkInit /\ GpaIdle /\ CatalogIdle /\ GenIdle /\ NameIdle /\ UrlIdle /\ FormIdle /\ RoleIdle /\ ProfileIdle /\ SkillsIdle /\ HeaderIdle /\ VolunteerInit /\ TripIdle
NextVolunteer ==
    \/ BuildAdditionalInfo
    \/ AddAdditionalSections
SpecVolunteer == InitVolunteer /\ [][NextVolunteer]_vars

InitTrip == PhoneIdle /\ WorkInit /\ GpaIdle /\ CatalogIdle /\ GenIdle /\ NameIdle /\ UrlIdle /\ FormIdle /\ RoleIdle /\ ProfileIdle /\ SkillsIdle /\ HeaderIdle /\ VolunteerIdle /\ TripInit
NextTrip ==
    \/ DownloadProfileJson
    \/ UploadProfileJson
SpecTrip == InitTrip /\ [][NextTrip]_vars

(***************************************************************************)
(* Claims                                                                  *)
(***************************************************************************)
\* C1: a phone is accepted exactly when it has 10 digit characters, or 11
\* with a leading 1; an accepted phone is stored as (XXX) XXX-XXXX of those
\* 10 digits; every other input is rejected with an error naming the digit
\* count found.
C1_PhoneAcceptedByDigitCount ==
    phoneOut # NoPhoneResult =>
        LET d == DigitsOf(phoneIn)
            accept == Len(d) = 10 \/ (Len(d) = 11 /\ Head(d) = "1")
            ten == IF Len(d) = 11 THEN Tail(d) ELSE d
        IN  /\ phoneOut.ok <=> accept
            /\ phoneOut.ok => phoneOut.value = FormatTen(ten)
            /\ ~phoneOut.ok =>
                   phoneOut.err = "digit_count" /\ phoneOut.count = Len(d)

\* C2: constructing a work entry whose end date is set and precedes its
\* start date fails with a date-range error and produces no entry.
C2_EndBeforeStartRejected ==
    (/\ whOp.op = "construct"
     /\ whOp.start # NoDate
     /\ whOp.end # NoDate
     /\ whOp.end < whOp.start)
        => ("end_before_start" \in whOp.errors /\ ~whEntry.exists)

C2_Witness ==
    /\ whOp.op = "construct"
    /\ whOp.start = 1
    /\ whOp.end = 0
    /\ "end_before_start" \in whOp.errors
    /\ ~whEntry.exists

\* C3: every work entry that exists, after construction and any sequence of
\* assignments to start_date and end_date, has no end date or an end date not
\* earlier than its start date.
C3_EndNotBeforeStart ==
    whEntry.exists =>
        (whEntry.end_date = NoDate \/ whEntry.end_date >= whEntry.start_date)

\* C4: for numeric input g >= 0 the stored GPA is round(g,2) when g <= 4,
\* round(g/10*4,2) when 4 < g <= 10, round(g/100*4,2) when 10 < g <= 100 and
\* 4.0 above 100 ('85' is stored as 3.4); non-numeric input is stored as
\* absent; the stored GPA is within 0.0 to 4.0.
C4_GpaRescaled ==
    gpaOut.done =>
        LET text == IF gpaIn.kind = "num" THEN IntToStr(gpaIn.num)
                    ELSE gpaIn.text
            f == ParseFloat(text)
            numeric == gpaIn.kind # "none" /\ f.ok
            g == f.val
            expected ==
                IF g <= 4 * GpaScale THEN RoundHundredths(g, GpaScale)
                ELSE IF g <= 10 * GpaScale
                     THEN RoundHundredths(4 * g, 10 * GpaScale)
                ELSE IF g <= 100 * GpaScale
                     THEN RoundHundredths(4 * g, 100 * GpaScale)
                ELSE 400
        IN  /\ (numeric /\ g >= 0) =>
                   /\ gpaOut.ok
                   /\ gpaOut.gpa = expected
                   /\ gpaOut.gpa >= 0
                   /\ gpaOut.gpa <= 400
            /\ ~numeric => (gpaOut.ok /\ gpaOut.gpa = NoGpa)
            /\ text = <<"8", "5">> => gpaOut.gpa = 340

C4_Witness ==
    /\ gpaOut.done
    /\ gpaIn.kind = "str"
    /\ gpaIn.text = <<"8", "5">>
    /\ gpaOut.ok
    /\ gpaOut.gpa = 340

\* the entries held by the catalog, and the values the search walks over
CatalogEntries == {mappings[i].val : i \in 1..Len(mappings)}

\* C5 (as stated): for every code c of a catalog entry, search(c, limit) with
\* limit >= 1 returns an entry whose code is c as the first result.
C5_ExactCodeFirst ==
    (/\ searchOp.done
     /\ searchOp.limit >= 1
     /\ \E e \in CatalogEntries : e.code = searchOp.query)
        => /\ searchOp.results # <<>>
           /\ searchOp.results[1].code = searchOp.query

\* C5 (amended): for every code c of at least 2 characters of a catalog
\* entry, search(c, limit) with limit >= 1 returns an entry whose code is c
\* as the first result, whatever other entries match.
C5_ExactCodeFirstFromTwoChars ==
    (/\ searchOp.done
     /\ searchOp.limit >= 1
     /\ Len(searchOp.query) >= 2
     /\ \E e \in CatalogEntries : e.code = searchOp.query)
        => /\ searchOp.results # <<>>
           /\ searchOp.results[1].code = searchOp.query

C5_Witness ==
    /\ searchOp.done
    /\ searchOp.query = <<"1", "1", "B">>
    /\ Len(searchOp.results) >= 2
    /\ searchOp.results[1].code = searchOp.query
    /\ \E j \in 2..Len(searchOp.results) :
           /\ StrLess(searchOp.results[j].code, searchOp.query)
           /\ Contains(Lower(searchOp.query), Lower(searchOp.results[j].title))

\* the query occurs, ignoring case, in one of the searched fields of e
QueryOccurs(e, q) ==
    LET In(field) == Contains(Lower(q), Lower(field))
    IN  \/ In(e.code) \/ In(e.title) \/ In(e.title_military)
        \/ In(e.civilian_equivalent) \/ In(e.soc_title)
        \/ In(e.onet_occupation)
        \/ \E i \in 1..Len(e.skills) : In(e.skills[i])
        \/ \E i \in 1..Len(e.keywords) : In(e.keywords[i])

\* C6: a query shorter than 2 characters returns the empty list; a longer
\* query with a limit of at least the catalog size returns exactly the
\* catalog entries in which the query occurs (case-insensitive substring of
\* a searched field), and no other entry.
C6_SearchMembership ==
    searchOp.done =>
        LET found == {searchOp.results[i] : i \in 1..Len(searchOp.results)}
        IN  /\ Len(searchOp.query) < 2 => searchOp.results = <<>>
            /\ (/\ Len(searchOp.query) >= 2
                /\ searchOp.limit >= Cardinality(CatalogEntries))
                   => found = {e \in CatalogEntries :
                                  QueryOccurs(e, searchOp.query)}

\* rank of an entry for a query: exact code, then title hit, then code
RankBefore(a, b, q) ==
    LET exactA == IF a.code = Upper(q) THEN 0 ELSE 1
        exactB == IF b.code = Upper(q) THEN 0 ELSE 1
        titleA == IF Contains(Lower(q), Lower(a.title)) THEN 0 ELSE 1
        titleB == IF Contains(Lower(q), Lower(b.title)) THEN 0 ELSE 1
    IN  \/ exactA < exactB
        \/ exactA = exactB /\ titleA < titleB
        \/ exactA = exactB /\ titleA = titleB /\ StrLess(a.code, b.code)

Occurrences(seq, x) == Cardinality({i \in 1..Len(seq) : seq[i] = x})

\* the index values the query occurs in, in index order
MatchingValues(q) ==
    LET Hit(e) == QueryOccurs(e, q)
    IN  SelectSeq(DictValues(mappings), Hit)

\* C7: the result is the first `limit` of the matches sorted by exact code
\* (uppercased query), then title containing the query (ignoring case), then
\* ascending code: it has at most `limit` elements, it is in rank order, and
\* no omitted match ranks before a returned one.
C7_SearchRankedAndTruncated ==
    (searchOp.done /\ Len(searchOp.query) >= 2) =>
        LET res == searchOp.results
            q == searchOp.query
            all == MatchingValues(q)
        IN  /\ Len(res) <= searchOp.limit
            /\ Len(res) = IF searchOp.limit < Len(all) THEN searchOp.limit
                          ELSE Len(all)
            /\ \A i \in 1..Len(res) :
                   Occurrences(res, res[i]) <= Occurrences(all, res[i])
            /\ \A i, j \in 1..Len(res) :
                   i < j => ~RankBefore(res[j], res[i], q)
            /\ \A k \in 1..Len(all) :
                   Occurrences(res, all[k]) < Occurrences(all, all[k])
                       => \A i \in 1..Len(res) : ~RankBefore(all[k], res[i], q)

C7_Witness ==
    LET all == MatchingValues(searchOp.query)
    IN  /\ searchOp.done
        /\ Len(searchOp.query) >= 2
        /\ searchOp.limit = 2
        /\ Len(all) > 2
        /\ Len(searchOp.results) = 2
        /\ searchOp.results[1].code = Upper(searchOp.query)
        /\ searchOp.results[1] # all[1]
        /\ \E k \in 1..Len(all) :
               /\ Occurrences(searchOp.results, all[k]) = 0
               /\ Contains(Lower(searchOp.query), Lower(all[k].title))

\* the error handed to the caller identifies the profile: its message names
\* the profile, or names an output path that was derived from the name
IdentifiesProfile(result) ==
    \/ "profile_name" \in result.mentions
    \/ ("output_path" \in result.mentions /\ genPath.auto)

\* C9: whenever the layout engine fails during a generate call, the caller
\* receives an error that carries the original error as its cause and the
\* identifying name of the profile; no output path is returned after an
\* engine failure.
C9_FailureCarriesCauseAndName ==
    /\ genPc = "raised" =>
           /\ genResult.kind = "exception"
           /\ (genResult.cause.kind # "none" \/ genResult.context.kind # "none")
           /\ IdentifiesProfile(genResult)
    /\ genResult.kind = "path" => genPc = "returned"

\* C10: after a generate call that fails at any step, no partially written
\* file exists at the final output path.
C10_NoPartialFileAfterFailure ==
    genPc = "raised" => outFile # "partial"


\* C11: any two generate calls made without an explicit file name, whether
\* one follows the other or both are in flight, resolve to distinct output
\* paths, also when both are for the same name.
C11_DistinctOutputPaths ==
    \A i \in CallIds, j \in CallIds :
        (i # j /\ nameCalls[i].pc # "idle" /\ nameCalls[j].pc # "idle")
            => nameCalls[i].path # nameCalls[j].path

\* the value with 'https://' put in front unless it has an http(s) scheme
Prefixed(t) ==
    IF StartsWith(t, HttpScheme) \/ StartsWith(t, HttpsScheme)
    THEN t ELSE HttpsScheme \o t

IsBlank(v) == v.none \/ Strip(v.text) = <<>>

\* C16: for both URL fields an empty or blank value is stored as absent and
\* an accepted non-blank value is stored with 'https://' in front unless it
\* has a scheme; a linkedin value is rejected with the LinkedIn error
\* exactly when, after prefixing, it does not contain 'linkedin.com'; a
\* portfolio value is never rejected by that check.
C16_UrlFields ==
    urlOut.done =>
        /\ \A f \in {"linkedin", "portfolio"} :
              /\ IsBlank(urlIn[f]) => urlOut[f] = UrlOk(NoUrl)
              /\ (~IsBlank(urlIn[f]) /\ urlOut[f].ok)
                    => urlOut[f].value = UrlText(Prefixed(urlIn[f].text))
        /\ ~IsBlank(urlIn.linkedin) =>
              (urlOut.linkedin = UrlErr("linkedin_url")
                 <=> ~Contains(LinkedinHost, Prefixed(urlIn.linkedin.text)))
        /\ urlOut.portfolio.ok

\* C12: every call of validate_contact_form, validate_work_history_entry and
\* validate_education_entry hands its caller an (is_valid, errors) pair,
\* whatever the form values are (missing, None or of another type
\* included); no exception leaves the call.
C12_ValidationNeverRaises ==
    formOut.done => formOut.raised = "none"

\* a required text field is invalid when it is no string, blank or shorter
\* than 2 characters
TextInvalid(v) ==
    v.kind \notin {"str"} \/ Strip(v.text) = <<>> \/ Len(v.text) < 2

\* the fields of a work entry that break a rule of the entry
WorkInvalidFields(d) ==
    LET s == Get(d.start_date)
        e == Get(d.end_date)
    IN  {f \in {"title"} : TextInvalid(GetOr(d.job_title, FStr(<<>>)))}
          \cup {f \in {"organization"} :
                  TextInvalid(GetOr(d.employer, FStr(<<>>)))}
          \cup {f \in {"start_date"} : s.kind # "date"}
          \cup {f \in {"end_date"} :
                  \/ e.kind \notin {"none", "date"}
                  \/ e.kind = "date" /\ s.kind = "date" /\ e.num < s.num}

\* the fields of an education entry that break a rule of the entry
EducationInvalidFields(d) ==
    LET y == convert_year(Get(d.year))
    IN  {f \in {"institution"} :
            TextInvalid(GetOr(d.institution, FStr(<<>>)))}
          \cup {f \in {"degree"} : TextInvalid(GetOr(d.degree, FStr(<<>>)))}
          \cup {f \in {"graduation_year"} :
                  y # NoYear /\ (y < MinGradYear \/ y > MaxGradYear)}
          \cup {f \in {"gpa"} :
                  ~EducationGpa(convert_gpa(GpaArg(Get(d.gpa)))).ok}

ReportedFields == {formOut.errors[i].field : i \in 1..Len(formOut.errors)}

\* C13: a validation call on a work or education entry that returns reports
\* an error for every invalid field of the entry in the one error list, also
\* when a required field is missing and another field is invalid as well.
C13_AllInvalidFieldsReported ==
    (formOut.done /\ formOut.raised = "none") =>
        /\ formIn.form = "work"
             => WorkInvalidFields(formIn.data) \subseteq ReportedFields
        /\ formIn.form = "education"
             => EducationInvalidFields(formIn.data) \subseteq ReportedFields

\* a text of decimal digits only, of the given length
DigitText(t, n) == Len(t) = n /\ \A i \in 1..n : IsDigit(t[i])

\* the accepted forms of a date text and what each denotes: ISO YYYY-MM-DD,
\* MM/YYYY, MM-YYYY (the month of one or two digits), a bare year, or one
\* of the tokens present / current
Denoted(text) ==
    LET t == Strip(text)
        sep == IF Contains(<<"/">>, t) THEN "/" ELSE "-"
        p == SplitOn(t, sep)
        none == [form |-> "none", date |-> NoDate]
    IN  IF Lower(t) \in PresentTokens THEN [form |-> "present", date |-> NoDate]
        ELSE IF DigitText(t, 4) THEN [form |-> "year", date |-> MakeDate(DecVal(t), 1, 1)]
        ELSE IF Len(p) = 3 /\ sep = "-" /\ DigitText(p[1], 4)
                /\ DigitText(p[2], 2) /\ DigitText(p[3], 2)
        THEN IF DecVal(p[2]) \in 1..12 /\ DecVal(p[3]) \in 1..28
             THEN [form |-> "iso",
                   date |-> MakeDate(DecVal(p[1]), DecVal(p[2]), DecVal(p[3]))]
             ELSE none
        ELSE IF Len(p) = 2 /\ (DigitText(p[1], 1) \/ DigitText(p[1], 2))
                /\ DigitText(p[2], 4)
        THEN IF DecVal(p[1]) \in 1..12
             THEN [form |-> "month", date |-> MakeDate(DecVal(p[2]), DecVal(p[1]), 1)]
             ELSE none
        ELSE none

\* a non-empty date string that has none of the accepted forms
Unparseable(v) ==
    v.kind = "str" /\ Strip(v.text) # <<>> /\ Denoted(v.text).form = "none"

\* C14: a work entry is never built from a non-empty start or end date
\* string that has none of the accepted forms; the build fails with an
\* error instead of putting a substitute date into the profile.
C14_UnparseableDateRejected ==
    (roleOut.done
       /\ (Unparseable(roleIn.start_date) \/ Unparseable(roleIn.end_date)))
      => (~roleOut.built /\ roleOut.error # "none")

\* C15: when a work entry is built, a start or end date string of an
\* accepted form has become the date it denotes (ISO the day, MM/YYYY and
\* MM-YYYY the first of the month, a bare year January 1), and an end date
\* of 'present' / 'current' in any letter case has become no end date with
\* the entry marked current.
C15_AcceptedFormsDenote ==
    roleOut.built =>
        /\ (roleIn.start_date.kind = "str"
              /\ Denoted(roleIn.start_date.text).form \in {"iso", "month", "year"})
             => roleOut.start_date = Denoted(roleIn.start_date.text).date
        /\ (roleIn.end_date.kind = "str"
              /\ Denoted(roleIn.end_date.text).form \in {"iso", "month", "year"})
             => roleOut.end_date = Denoted(roleIn.end_date.text).date
        /\ (roleIn.end_date.kind = "str"
              /\ Denoted(roleIn.end_date.text).form = "present")
             => (roleOut.end_date = NoDate /\ roleOut.current)

\* C17: every ResumeProfile that exists, after a construction with or
\* without target_roles given and after any assignments to target_roles,
\* has a non-empty list of target roles.
C17_TargetRolesNonEmpty ==
    rpProfile.exists => rpProfile.target_roles # <<>>

\* C18: once the catalog is loaded, get_mos given the non-empty lookup key
\* (branch|code) of an entry of the catalog returns an entry that was loaded
\* with that key.
C18_LookupByCompositeKey ==
    \A e \in CatalogEntries :
        (lookupOp.done /\ e.csv_lookup_key # <<>>
           /\ lookupOp.code = e.csv_lookup_key)
          => (lookupOp.result # NoMapping
                /\ lookupOp.result.csv_lookup_key = e.csv_lookup_key)

\* C19: when the dataset file is missing the construction of the service
\* ends with a warning and not an exception, the index is empty, and from
\* then on every search returns the empty list and every get_mos returns
\* nothing.
C19_MissingFileEmptyCatalog ==
    (dataFile = "missing" /\ loadOutcome # "none") =>
        /\ loadOutcome = "warned"
        /\ loaded
        /\ mappings = <<>>
        /\ searchOp.done => searchOp.results = <<>>
        /\ lookupOp.done => lookupOp.result = NoMapping

C19_Witness ==
    /\ dataFile = "missing"
    /\ loaded
    /\ searchOp.done
    /\ Len(searchOp.query) >= 2
    /\ searchOp.limit >= 1

\* C20: when the dataset file exists but is malformed, loading does not
\* raise to the caller: the service exists with an empty index and searches
\* return no results.
C20_MalformedFileEmptyCatalog ==
    (dataFile = "malformed" /\ loadOutcome # "none") =>
        /\ loadOutcome # "raised"
        /\ loaded
        /\ mappings = <<>>
        /\ searchOp.done => searchOp.results = <<>>
\* C23: for every phone input that is accepted, validating the stored
\* (XXX) XXX-XXXX string again is accepted and yields the same string.
C23_PhoneNormalizationIdempotent ==
    phoneAgain # NoPhoneResult => phoneAgain = PhoneOk(phoneOut.value)

C23_Witness ==
    /\ phoneAgain # NoPhoneResult
    /\ phoneOut.ok
    /\ phoneIn # phoneOut.value
    /\ Len(DigitsOf(phoneIn)) = 11

\* C30: FieldValidator.validate_phone and the phone validation of Contact
\* accept the same phone inputs.
C30_PhoneChecksAgree ==
    (phoneOut # NoPhoneResult /\ phoneForm # NoPhoneResult)
        => (phoneOut.ok <=> phoneForm.ok)


\* C28: every loaded entry has the SOC title as civilian equivalent when that
\* is non-empty and the O*NET occupation otherwise, and whenever the civilian
\* equivalent is non-empty the skills are its comma-separated parts.
C28_SkillsSeededFromCivilianEquivalent ==
    loaded =>
        \A e \in CatalogEntries :
            /\ e.civilian_equivalent =
                   (IF e.soc_title # <<>> THEN e.soc_title
                    ELSE e.onet_occupation)
            /\ e.civilian_equivalent # <<>>
                   => e.skills = CommaParts(e.civilian_equivalent)

\* C29: no catalog entry occurs more than once in the result of a search.
C29_NoDuplicateResults ==
    searchOp.done =>
        \A i, j \in 1..Len(searchOp.results) :
            searchOp.results[i] = searchOp.results[j] => i = j
\* C27: the rendered date range of a work entry is the start month and year,
\* the separator, and then the end month and year when the entry has an end
\* date and is not current, and Present whenever the entry is ongoing (no
\* end date, or the current flag set); the end part is never empty.
C27_DateRangeEndPart ==
    whRange.done =>
        LET ongoing == whRange.current \/ whRange.end_date = NoDate
            endPart == IF ongoing THEN <<"P", "r", "e", "s", "e", "n", "t">>
                       ELSE MonthYear(whRange.end_date)
        IN  whRange.text
                = MonthYear(whRange.start_date) \o <<" ", "-", " ">> \o endPart

\* the sections of the document that was laid out
Sections == {genDoc[i].section : i \in 1..Len(genDoc)}

\* each of the six headings is in the document only when the profile has
\* content for its section
HeadingsHaveContent ==
    /\ "SUMMARY" \in Sections => genProfile.summary
    /\ "PROFESSIONAL EXPERIENCE" \in Sections => genProfile.work_history > 0
    /\ "EDUCATION & CERTIFICATIONS" \in Sections
           => (genProfile.education > 0 \/ genProfile.certifications > 0)
    /\ "SKILLS" \in Sections => genProfile.core_skills > 0
    /\ "AWARDS & HONORS" \in Sections
           => (genProfile.additional_info /\ genProfile.awards > 0)
    /\ "VOLUNTEER EXPERIENCE" \in Sections
           => (genProfile.additional_info /\ genProfile.volunteer > 0)

NothingToList ==
    /\ genProfile.work_history = 0
    /\ genProfile.education = 0
    /\ genProfile.certifications = 0

\* C24 (as stated): a heading is in the document only when its section has
\* content, and a profile with empty work_history, education and
\* certifications gives a document of only the header, the summary if
\* present, and the skills.
C24_NoEmptySection ==
    genDoc # <<>> =>
        /\ HeadingsHaveContent
        /\ NothingToList => Sections \subseteq {"header", "SUMMARY", "SKILLS"}

\* C24 (amended): a heading is in the document only when its section has
\* content, and a profile with empty work_history, education and
\* certifications gives a document of only the header, the branch line when
\* the branch is known, the summary if present, the skills, and the awards
\* and volunteer sections that have content.
C24_NoEmptySectionButBranchAndTrailing ==
    genDoc # <<>> =>
        /\ HeadingsHaveContent
        /\ NothingToList =>
               Sections \subseteq {"header", "branch", "SUMMARY", "SKILLS",
                                   "AWARDS & HONORS", "VOLUNTEER EXPERIENCE"}

C24_Witness ==
    /\ genDoc # <<>>
    /\ NothingToList
    /\ genProfile.summary
    /\ genProfile.additional_info
    /\ genProfile.awards = 0
    /\ genProfile.volunteer > 0
    /\ Sections = {"header", "SUMMARY", "VOLUNTEER EXPERIENCE"}


\* the skills of a list in the order of their first occurrence
RECURSIVE FirstOccurrences(_)
FirstOccurrences(list) ==
    IF list = <<>> THEN <<>>
    ELSE LET rest == FirstOccurrences(SubSeq(list, 1, Len(list) - 1))
             last == list[Len(list)]
         IN  IF \E i \in 1..Len(rest) : rest[i] = last THEN rest
             ELSE Append(rest, last)

\* the five sources one after the other, in priority order
AllSkillSources ==
    skIn.mos_translated_skills \o skIn.core_skills
        \o skIn.tools_technologies \o skIn.target_keywords
        \o (IF skIn.mos THEN skIn.civilian_skills ELSE <<>>)

\* C25: the skills line is the comma-joined list of the distinct skills,
\* each once, in the order of first occurrence over the sources in priority
\* order (MOS-translated, core, tools/technologies, target keywords, MOS
\* civilian skills), also when a source repeats a skill.
C25_SkillsLineDistinctInOrder ==
    (skOut.done /\ skOut.shown)
        => skOut.text = JoinComma(FirstOccurrences(AllSkillSources))

\* the parts the contact line is made of, empty when there is none
HeaderParts ==
    <<_format_location(hdrIn.city, hdrIn.state), hdrIn.phone, hdrIn.email,
      IF hdrIn.linkedin = NoText THEN <<>> ELSE hdrIn.linkedin,
      IF hdrIn.security_clearance = ClearanceNone THEN <<>>
      ELSE ClearanceLabel(hdrIn.security_clearance)>>

NonEmptyText(t) == t # <<>>

Separator == <<" ", "|", " ">>

EndsWith(t, suffix) ==
    /\ Len(t) >= Len(suffix)
    /\ SubSeq(t, Len(t) - Len(suffix) + 1, Len(t)) = suffix

\* C26: the contact line of the header is the non-empty parts among
\* location, phone, email, LinkedIn and clearance label joined by the
\* separator; it does not begin or end with a separator and has no two
\* separators with nothing between them, also when city and state are both
\* empty.
C26_ContactLineOmitsEmptyParts ==
    hdrOut.done =>
        /\ hdrOut.text = JoinBar(SelectSeq(HeaderParts, NonEmptyText))
        /\ ~StartsWith(hdrOut.text, Separator)
        /\ ~EndsWith(hdrOut.text, Separator)
        /\ ~Contains(Separator \o Separator, hdrOut.text)

\* the rendered entry shows the volunteer entry of the session state
ShowsVolunteer(shown, vol) ==
    IF vol.kind = "str" THEN shown.bullet /\ shown.text = vol.text
    ELSE /\ ~shown.bullet
         /\ shown.role = vol.role
         /\ shown.organization = vol.organization
         /\ shown.description = vol.description
         /\ shown.date_range = vol.date_range

\* C21: a volunteer list of plain strings, of structured records with any of
\* their fields empty, or of both is built into the profile and rendered
\* without raising, and every entry of the list is rendered under VOLUNTEER
\* EXPERIENCE.
C21_VolunteerBuiltAndRendered ==
    /\ volPc # "raised"
    /\ volPc = "rendered" =>
           /\ Len(volDoc) = Len(volIn)
           /\ \A i \in 1..Len(volIn) : ShowsVolunteer(volDoc[i], volIn[i])

\* two date values that are equal, or one the ISO-8601 text of the other
SameDate(a, b) ==
    \/ a = b
    \/ a.kind = "date" /\ b.kind = "str" /\ b.text = isoformat(a.num)
    \/ b.kind = "date" /\ a.kind = "str" /\ a.text = isoformat(b.num)

\* C22: after the profile in progress is exported to JSON and that JSON is
\* imported, the imported session has the same name and contact fields, the
\* same work entries (title, organization, dates up to ISO-8601
\* serialization) and the same education entries as the exported one.
C22_ExportImportRoundTrip ==
    rtPc = "imported" =>
        /\ rtLoaded.profile_data = rtSession.profile_data
        /\ Len(rtLoaded.work_history) = Len(rtSession.work_history)
        /\ \A i \in 1..Len(rtSession.work_history) :
               LET was == rtSession.work_history[i]
                   is == rtLoaded.work_history[i]
               IN  /\ is.job_title = was.job_title
                   /\ is.employer = was.employer
                   /\ SameDate(is.start_date, was.start_date)
                   /\ SameDate(is.end_date, was.end_date)
        /\ rtLoaded.education = rtSession.education
=============================================================================
